---- MODULE Spec2Model ----
(***************************************************************************)
(* A model of the two AWK interpreters of the repository,                  *)
(* src/pyawk_ai_fixed.py ("fixed") and src/pyawk_ai_enhanced.py            *)
(* ("enhanced"): the record driver (main / AwkProcessor.process_file), the *)
(* field model (split_fields / split_record, get_field, set_field), the    *)
(* evaluation of patterns (evaluate_condition) and the execution of        *)
(* actions (execute_action).                                               *)
(*                                                                         *)
(* Strings are sequences of one-character strings, so that splitting,      *)
(* joining and stripping are computed and not assumed.  A text file is a   *)
(* sequence of lines, each ending in a newline; the lines and the number   *)
(* of files are chosen step by step, as the driver asks for them.          *)
(***************************************************************************)
EXTENDS Integers, Sequences, FiniteSets

\* ------------------------------------------------------------------ bounds
\* The most records read in one run, and the most input sources of one run.
MaxRecords == 2
MaxFiles == 2

\* ----------------------------------------------------------------- strings
NL == "\n"

IsWs(c) == c \in {" ", NL}

RECURSIVE Join(_, _)
\* sep.join(parts), Python's str.join
Join(parts, sep) ==
    IF parts = <<>> THEN <<>>
    ELSE IF Len(parts) = 1 THEN parts[1]
    ELSE parts[1] \o sep \o Join(Tail(parts), sep)

RECURSIVE RStripNl(_)
\* s.rstrip('\n')
RStripNl(s) ==
    IF s # <<>> /\ s[Len(s)] = NL THEN RStripNl(SubSeq(s, 1, Len(s) - 1)) ELSE s

\* list(s): one string per character
Chars(s) == [i \in 1..Len(s) |-> <<s[i]>>]

RECURSIVE SplitWsAcc(_, _, _)
SplitWsAcc(s, cur, acc) ==
    IF s = <<>> THEN (IF cur = <<>> THEN acc ELSE Append(acc, cur))
    ELSE IF IsWs(Head(s))
         THEN SplitWsAcc(Tail(s), <<>>, IF cur = <<>> THEN acc ELSE Append(acc, cur))
         ELSE SplitWsAcc(Tail(s), Append(cur, Head(s)), acc)

\* s.strip().split(): the maximal runs of non-whitespace characters
SplitWs(s) == SplitWsAcc(s, <<>>, <<>>)

RECURSIVE SplitOnAcc(_, _, _, _)
SplitOnAcc(s, c, cur, acc) ==
    IF s = <<>> THEN Append(acc, cur)
    ELSE IF Head(s) = c
         THEN SplitOnAcc(Tail(s), c, <<>>, Append(acc, cur))
         ELSE SplitOnAcc(Tail(s), c, Append(cur, Head(s)), acc)

\* s.split(c) and re.split(c, s) for a separator c of one literal character
SplitOn(s, c) == SplitOnAcc(s, c, <<>>, <<>>)

\* str(n) for the small naturals the model meets
Digit(d) == CASE d = 0 -> "0" [] d = 1 -> "1" [] d = 2 -> "2" [] d = 3 -> "3"
              [] d = 4 -> "4" [] d = 5 -> "5" [] d = 6 -> "6" [] d = 7 -> "7"
              [] d = 8 -> "8" [] d = 9 -> "9"

RECURSIVE StrOfNat(_)
StrOfNat(n) == IF n < 10 THEN <<Digit(n)>> ELSE Append(StrOfNat(n \div 10), Digit(n % 10))

\* re.search for the two regex shapes of the model: /c/ (some character is
\* c) and /[^c]/ (some character is not c; a newline is such a character)
ReSearch(re, s) ==
    IF re.neg THEN \E i \in 1..Len(s) : s[i] # re.ch
    ELSE \E i \in 1..Len(s) : s[i] = re.ch

\* ------------------------------------------------------------------ values
\* A Python value held by a variable: a number, a string, an object of the
\* interpreter (such as the builtin `exit`), or no value (the key is absent).
Num(n) == [t |-> "num", n |-> n, s |-> <<>>]
Str(s) == [t |-> "str", n |-> 0, s |-> s]
Obj == [t |-> "obj", n |-> 0, s |-> <<>>]
Undef == [t |-> "undef", n |-> 0, s |-> <<>>]

\* A Python float, held in hundredths (the model meets floats of at most two
\* decimals).
Flt(h) == [t |-> "flt", n |-> h, s |-> <<>>]

\* str(f) of a float: the integer part, the point, and the decimals without
\* a trailing zero (but one decimal at least)
FloatStr(h) ==
    StrOfNat(h \div 100) \o <<".", Digit((h % 100) \div 10)>>
    \o (IF h % 10 = 0 THEN <<>> ELSE <<Digit(h % 10)>>)

\* str(v)
PyStr(v) == IF v.t = "num" THEN StrOfNat(v.n)
            ELSE IF v.t = "flt" THEN FloatStr(v.n)
            ELSE IF v.t = "obj" THEN <<"?">> ELSE v.s

\* int(s) and float(s) over digits, the point and letters: int takes a
\* non-empty run of digits, float also takes digits with one point among them.
DigitVal(c) == CASE c = "0" -> 0 [] c = "1" -> 1 [] c = "2" -> 2 [] c = "3" -> 3
                 [] c = "4" -> 4 [] c = "5" -> 5 [] c = "6" -> 6 [] c = "7" -> 7
                 [] c = "8" -> 8 [] c = "9" -> 9

IsDigit(c) == c \in {"0", "1", "2", "3", "4", "5", "6", "7", "8", "9"}

IsInt(s) == s # <<>> /\ \A i \in 1..Len(s) : IsDigit(s[i])

RECURSIVE IntOf(_)
IntOf(s) == IF s = <<>> THEN 0 ELSE 10 * IntOf(SubSeq(s, 1, Len(s) - 1)) + DigitVal(s[Len(s)])

IsFloat(s) ==
    /\ Cardinality({ i \in 1..Len(s) : s[i] = "." }) = 1
    /\ \E i \in 1..Len(s) : IsDigit(s[i])
    /\ \A i \in 1..Len(s) : IsDigit(s[i]) \/ s[i] = "."

\* The hundredths of a float text whose point stands at index dot.
FloatAt(s, dot) ==
    100 * IntOf(SubSeq(s, 1, dot - 1))
    + (IF dot + 1 <= Len(s) THEN 10 * DigitVal(s[dot + 1]) ELSE 0)
    + (IF dot + 2 <= Len(s) THEN DigitVal(s[dot + 2]) ELSE 0)

FloatOf(s) == FloatAt(s, CHOOSE i \in 1..Len(s) : s[i] = ".")

\* The code point order of the characters the model meets.
Ord(c) == CASE c = NL -> 10 [] c = " " -> 32 [] c = "," -> 44 [] c = "-" -> 45
            [] c = "." -> 46 [] IsDigit(c) -> 48 + DigitVal(c) [] c = "=" -> 61
            [] c = "a" -> 97 [] c = "b" -> 98 [] c = "s" -> 115 [] c = "t" -> 116
            [] c = "x" -> 120 [] OTHER -> 63

RECURSIVE StrGt(_, _)
\* a > b for two Python strings
StrGt(a, b) ==
    IF a = <<>> THEN FALSE
    ELSE IF b = <<>> THEN TRUE
    ELSE IF Head(a) = Head(b) THEN StrGt(Tail(a), Tail(b))
    ELSE Ord(Head(a)) > Ord(Head(b))

\* The names an action may read or assign: the built-in variables that
\* AwkVariables holds, the builtin `exit`, and a user variable.
BuiltinNames == {"NR", "FNR", "NF", "FS", "OFS", "ORS"}
Names == BuiltinNames \cup {"exit", "x", "fieldsum"}
\* The names of the model for which key.startswith('field') is true.
FieldPrefixed == {"fieldsum"}

NoVars == [n \in Names |-> Undef]

\* ----------------------------------------------------------------- program
\* Patterns: BEGIN, END, the empty pattern, and a regex literal.
PBegin == [kind |-> "BEGIN", neg |-> FALSE, ch |-> ""]
PEnd == [kind |-> "END", neg |-> FALSE, ch |-> ""]
PEmpty == [kind |-> "empty", neg |-> FALSE, ch |-> ""]
PRegex(neg, ch) == [kind |-> "regex", neg |-> neg, ch |-> ch]

\* Two more patterns: the comparison l > r of two expressions, and the
\* expression 1/0.
PGt(l, r) == [kind |-> "gt", neg |-> FALSE, ch |-> "", l |-> l, r |-> r]
PDiv0 == [kind |-> "div0", neg |-> FALSE, ch |-> ""]

\* Expressions: a string literal, a field reference $k, a variable.
Lit(s) == [e |-> "lit", k |-> 0, s |-> s, name |-> ""]
Field(k) == [e |-> "field", k |-> k, s |-> <<>>, name |-> ""]
Var(name) == [e |-> "var", k |-> 0, s |-> <<>>, name |-> name]

\* One more expression: the numeric constant k.
Const(k) == [e |-> "num", k |-> k, s |-> <<>>, name |-> ""]

\* Statements of an action (one per line in the fixed interpreter, separated
\* by ';' in the enhanced one): print with arguments, bare print, a call of
\* set_field with a literal, an assignment of a literal, and exit.
print_args(args) == [op |-> "print", k |-> 0, val |-> Undef, name |-> "", args |-> args]
print_bare == [op |-> "print0", k |-> 0, val |-> Undef, name |-> "", args |-> <<>>]
call_set_field(k, s) == [op |-> "set_field", k |-> k, val |-> Str(s), name |-> "", args |-> <<>>]
assign(name, val) == [op |-> "assign", k |-> 0, val |-> val, name |-> name, args |-> <<>>]
exit_stmt == [op |-> "exit", k |-> 0, val |-> Undef, name |-> "", args |-> <<>>]

\* One more statement: name = 1/0.
assign_div0(name) == [op |-> "div0", k |-> 0, val |-> Undef, name |-> name, args |-> <<>>]

Rule(pat, act) == [pat |-> pat, act |-> act]

\* IsMainRule written as if only BEGIN rules were kept out of the main loop.
IsMainRule_NotBegin(r) == r.pat.kind # "BEGIN"

\* condition not in ("BEGIN", "END")
IsMainRule(r) == r.pat.kind \notin {"BEGIN", "END"}

\* ------------------------------------------------------------- field model
\* A Python list is a sequence whose element i+1 is the list's element i.
At(list, i) == list[i + 1]

RECURSIVE Extend(_, _)
\* while len(fields) <= n: fields.append("")
Extend(fields, n) == IF Len(fields) <= n THEN Extend(Append(fields, <<>>), n) ELSE fields

\* The record of the most recent set_field call, taken when it returns.
NoSetLog == [valid |-> FALSE, k |-> 0, v |-> <<>>, prevNF |-> 0, prevLen |-> 0,
             NF |-> 0, flds |-> <<>>, field0 |-> <<>>, fieldk |-> <<>>, ofs |-> <<>>]

\* pyawk_ai_fixed.py ---------------------------------------------------------
split_fields(p, line) ==
    LET f == IF p.FS = <<" ">> THEN SplitWs(line)
             ELSE IF p.FS = <<>> THEN Chars(line)
             ELSE SplitOn(RStripNl(line), p.FS[1])
    IN [p EXCEPT !.fields = <<(<<>>)>> \o f, !.NF = Len(f)]

get_field_F(p, n) ==
    IF n = 0 THEN RStripNl(p.current_line)
    ELSE IF 1 <= n /\ n <= Len(p.fields) - 1 THEN At(p.fields, n)
    ELSE <<>>

set_field_F(p, n, value) ==
    IF n = 0
    THEN split_fields([p EXCEPT !.current_line = value \o <<NL>>], value \o <<NL>>)
    ELSE LET ext == Extend(p.fields, n)
             fl == [ext EXCEPT ![n + 1] = value]
         IN [p EXCEPT !.fields = fl,
                      !.NF = Len(fl) - 1,
                      !.current_line = Join(Tail(fl), p.OFS) \o <<NL>>]

\* pyawk_ai_enhanced.py ------------------------------------------------------
split_record(p, record) ==
    LET f == IF p.FS = <<" ">> THEN SplitWs(record)
             ELSE IF p.FS = <<>> THEN Chars(record)
             ELSE SplitOn(record, p.FS[1])
    IN [p EXCEPT !.fields = <<record>> \o f, !.NF = Len(f)]

get_field_E(p, n) ==
    IF n = 0 THEN (IF p.fields # <<>> THEN At(p.fields, 0) ELSE <<>>)
    ELSE IF 1 <= n /\ n < Len(p.fields) THEN At(p.fields, n)
    ELSE <<>>

set_field_E(p, n, value) ==
    LET ext == Extend(p.fields, n)
        fl == [ext EXCEPT ![n + 1] = value]
    IN IF n > 0
       THEN [p EXCEPT !.fields = [fl EXCEPT ![1] = Join(Tail(fl), p.OFS)],
                      !.NF = Len(fl) - 1]
       ELSE [p EXCEPT !.fields = fl]

\* The call set_field(n, value) of an action, and what was observed when it
\* returned: asg.OFS is the value most recently assigned to OFS in the run.
NoteSetField(variant, p, q, n, value) ==
    [q EXCEPT !.sfLog = [valid |-> TRUE, k |-> n, v |-> value,
                         prevNF |-> p.NF, prevLen |-> Len(p.fields),
                         NF |-> q.NF, flds |-> Tail(q.fields),
                         field0 |-> IF variant = "fixed" THEN get_field_F(q, 0)
                                    ELSE get_field_E(q, 0),
                         fieldk |-> IF variant = "fixed" THEN get_field_F(q, n)
                                    ELSE get_field_E(q, n),
                         ofs |-> p.asg.OFS]]

CallSetField(variant, p, n, value) ==
    NoteSetField(variant, p,
                 IF variant = "fixed" THEN set_field_F(p, n, value)
                 ELSE set_field_E(p, n, value),
                 n, value)

\* ------------------------------------------------------- action execution
\* AwkVariables.to_dict / the built-in entries of exec_context
BuiltinValue(p, n) ==
    CASE n = "NR" -> Num(p.NR) [] n = "FNR" -> Num(p.FNR) [] n = "NF" -> Num(p.NF)
      [] n = "FS" -> Str(p.FS) [] n = "OFS" -> Str(p.OFS) [] n = "ORS" -> Str(p.ORS)

\* The outcome of a statement: the processor after it and the exception it
\* raised, if any ("name": a NameError for the variable `name`).
Ok(p) == [p |-> p, exc |-> "none", name |-> ""]
NameError(p, n) == [p |-> p, exc |-> "name", name |-> n]

\* 1/0 raises ZeroDivisionError; raised counts the runtime errors raised.
ZeroDivisionError(p) == [p |-> [p EXCEPT !.raised = @ + 1], exc |-> "zerodiv", name |-> ""]

\* The record of the most recent print with arguments: the string forms of
\* the arguments, the OFS and ORS most recently assigned, the text written.
NoPrintLog == [valid |-> FALSE, args |-> <<>>, ofs |-> <<>>, ors |-> <<>>, text |-> <<>>]

PrintLog(p, strs, text) ==
    [valid |-> TRUE, args |-> strs, ofs |-> p.asg.OFS, ors |-> p.asg.ORS, text |-> text]

\* The record of the most recent assignment of an action: the fields and NF
\* held before and after it.
NoAsgLog == [valid |-> FALSE, name |-> "", val |-> Undef, fieldsBefore |-> <<>>,
             NFBefore |-> 0, fieldsAfter |-> <<>>, NFAfter |-> 0]

\* What an assignment leaves in the records: q is the processor after the
\* assignment, p the one before it.  An assignment to FS, OFS or ORS is the
\* most recent one of that name.
NoteAssign(p, q, name, val) ==
    LET q1 == [q EXCEPT !.asgLog = [valid |-> TRUE, name |-> name, val |-> val,
                                    fieldsBefore |-> p.fields, NFBefore |-> p.NF,
                                    fieldsAfter |-> q.fields, NFAfter |-> q.NF]]
    IN IF name \in {"FS", "OFS", "ORS"} THEN [q1 EXCEPT !.asg[name] = val.s] ELSE q1

\* pyawk_ai_fixed.py ---------------------------------------------------------
\* A name read by exec(parsed_action, exec_context, self.user_vars): the
\* locals (user_vars), then the globals (exec_context, built when the action
\* started), then Python's builtins; Undef stands for the NameError.
Lookup_F(p, snap, name) ==
    IF p.user_vars[name] # Undef THEN p.user_vars[name]
    ELSE IF name \in BuiltinNames THEN snap[name]
    ELSE IF name = "exit" THEN Obj
    ELSE Undef

Eval_F(p, snap, e) ==
    CASE e.e = "lit" -> Str(e.s)
      [] e.e = "field" -> Str(get_field_F(p, e.k))
      [] e.e = "var" -> Lookup_F(p, snap, e.name)
      [] e.e = "num" -> Num(e.k)

\* The text is written to the output and the print is recorded.
Write(p, strs, text) == [p EXCEPT !.out = @ \o text, !.prLog = PrintLog(p, strs, text)]

StrsOf(vals) == [i \in 1..Len(vals) |-> PyStr(vals[i])]

awk_print(p, vals) == Write(p, StrsOf(vals), Join(StrsOf(vals), p.OFS) \o <<NL>>)

\* The first argument, in evaluation order, that names no value.
FirstUndef(vals) ==
    CHOOSE i \in 1..Len(vals) : vals[i] = Undef /\ \A j \in 1..(i - 1) : vals[j] # Undef

\* print(a, b, ...): the arguments are evaluated first, then written
PrintVals_F(p, st, vals) ==
    IF \E i \in 1..Len(vals) : vals[i] = Undef
    THEN NameError(p, st.args[FirstUndef(vals)].name)
    ELSE Ok(awk_print(p, vals))

ExecStmt_F(p, snap, st) ==
    CASE st.op = "print" ->
           PrintVals_F(p, st, [i \in 1..Len(st.args) |-> Eval_F(p, snap, st.args[i])])
      [] st.op = "print0" ->
           Ok([p EXCEPT !.out = @ \o Join(<<get_field_F(p, 0)>>, p.OFS) \o <<NL>>])
      [] st.op = "set_field" -> Ok(CallSetField("fixed", p, st.k, st.val.s))
      [] st.op = "assign" ->
           Ok(NoteAssign(p, [p EXCEPT !.user_vars[st.name] = st.val], st.name, st.val))
      [] st.op = "exit" ->
           IF Lookup_F(p, snap, "exit") = Undef THEN NameError(p, "exit")
           ELSE Ok([p EXCEPT !.exited = TRUE])
      [] st.op = "div0" -> ZeroDivisionError(p)

RECURSIVE RunStmts_F(_, _, _)
\* An exception ends the action; else the statements that follow are run.
Continue_F(r, snap, rest) == IF r.exc # "none" THEN r ELSE RunStmts_F(r.p, snap, rest)

RunStmts_F(p, snap, stmts) ==
    IF stmts = <<>> THEN Ok(p)
    ELSE Continue_F(ExecStmt_F(p, snap, Head(stmts)), snap, Tail(stmts))

\* CopyBack_F written as if NR were copied back from user_vars as well.
CopyBack_F_WithNR(p) ==
    LET q == IF p.user_vars["NF"] # Undef THEN [p EXCEPT !.NF = p.user_vars["NF"].n] ELSE p
        q1 == IF q.user_vars["OFS"] # Undef THEN [q EXCEPT !.OFS = q.user_vars["OFS"].s] ELSE q
    IN IF q1.user_vars["NR"] # Undef THEN [q1 EXCEPT !.NR = q1.user_vars["NR"].n] ELSE q1

\* "Update variables": only NF and OFS are copied back from user_vars
CopyBack_F(p) ==
    LET q == IF p.user_vars["NF"] # Undef THEN [p EXCEPT !.NF = p.user_vars["NF"].n] ELSE p
    IN IF q.user_vars["OFS"] # Undef THEN [q EXCEPT !.OFS = q.user_vars["OFS"].s] ELSE q

\* Conclude_F written as if the except clause did not report the error.
Conclude_F_Unreported(r) == IF r.exc # "none" THEN r.p ELSE CopyBack_F(r.p)

\* except Exception: the error is reported; else "Update variables"
Conclude_F(r) ==
    IF r.exc # "none" THEN [r.p EXCEPT !.err = Append(@, "action")] ELSE CopyBack_F(r.p)

execute_action_F(p, action) ==
    IF action = <<>>
    THEN [p EXCEPT !.out = @ \o p.current_line]
    ELSE Conclude_F(RunStmts_F(p, [n \in BuiltinNames |-> BuiltinValue(p, n)], action))

\* a > b in Python: two strings are compared character by character, two
\* numbers by value, and anything else raises TypeError; a name without a
\* value raises NameError.
IsNumber(v) == v.t \in {"num", "flt"}

Hundredths(v) == IF v.t = "flt" THEN v.n ELSE 100 * v.n

GtRaises(a, b) == ~(a.t = "str" /\ b.t = "str") /\ ~(IsNumber(a) /\ IsNumber(b))

Gt(a, b) ==
    IF a.t = "str" /\ b.t = "str" THEN StrGt(a.s, b.s)
    ELSE IsNumber(a) /\ IsNumber(b) /\ Hundredths(a) > Hundredths(b)

\* A name in eval(parsed, eval_context, self.user_vars): user_vars, then
\* the NR, NF and FNR of eval_context, then Python's builtins.
CondLookup_F(p, name) ==
    IF p.user_vars[name] # Undef THEN p.user_vars[name]
    ELSE IF name \in {"NR", "NF", "FNR"} THEN BuiltinValue(p, name)
    ELSE IF name = "exit" THEN Obj
    ELSE Undef

CondEval_F(p, e) ==
    CASE e.e = "lit" -> Str(e.s)
      [] e.e = "field" -> Str(get_field_F(p, e.k))
      [] e.e = "var" -> CondLookup_F(p, e.name)
      [] e.e = "num" -> Num(e.k)

\* The evaluation of the pattern raises: the except clause reports the
\* error and answers False.
condition_raises_F(p, pat) ==
    \/ pat.kind = "div0"
    \/ pat.kind = "gt" /\ GtRaises(CondEval_F(p, pat.l), CondEval_F(p, pat.r))

evaluate_condition_F(p, pat) ==
    IF pat.kind = "empty" THEN TRUE
    ELSE IF pat.kind = "BEGIN" THEN p.NR = 0
    ELSE IF pat.kind = "END" THEN FALSE
    ELSE IF pat.kind = "div0" THEN FALSE
    ELSE IF pat.kind = "gt" THEN Gt(CondEval_F(p, pat.l), CondEval_F(p, pat.r))
    ELSE ReSearch(pat, p.current_line)

\* pyawk_ai_enhanced.py ------------------------------------------------------
build_context(p) ==
    [n \in Names |-> IF p.user_vars[n] # Undef THEN p.user_vars[n]
                     ELSE IF n \in BuiltinNames THEN BuiltinValue(p, n)
                     ELSE Undef]

Eval_E(p, e) ==
    CASE e.e = "lit" -> Str(e.s)
      [] e.e = "field" -> Str(get_field_E(p, e.k))
      [] e.e = "var" -> p.context[e.name]
      [] e.e = "num" -> Num(e.k)

\* "Update user variables from context": every key of the context that is
\* not a built-in variable and does not start with 'field' is stored in
\* user_vars
UpdateUserVars(p) ==
    [p EXCEPT !.user_vars = [n \in Names |->
        IF n \notin BuiltinNames /\ n \notin FieldPrefixed /\ p.context[n] # Undef
        THEN p.context[n] ELSE @[n]]]

\* Python's print: the arguments joined by one space, then a newline
py_print(p, vals) == Write(p, StrsOf(vals), Join(StrsOf(vals), <<" ">>) \o <<NL>>)

\* print(a, b, ...): the arguments are evaluated first, then written
PrintVals_E(p, st, vals) ==
    IF \E i \in 1..Len(vals) : vals[i] = Undef
    THEN NameError(p, st.args[FirstUndef(vals)].name)
    ELSE Ok(UpdateUserVars(py_print(p, vals)))

ExecStmt_E(p, st) ==
    CASE st.op = "print" ->
           PrintVals_E(p, st, [i \in 1..Len(st.args) |-> Eval_E(p, st.args[i])])
      [] st.op = "print0" ->
           Ok([p EXCEPT !.out = @ \o get_field_E(p, 0) \o <<NL>>])
      [] st.op = "set_field" ->
           Ok(UpdateUserVars(CallSetField("enhanced", p, st.k, st.val.s)))
      [] st.op = "assign" ->
           Ok(UpdateUserVars(NoteAssign(p, [p EXCEPT !.context[st.name] = st.val],
                                        st.name, st.val)))
      [] st.op = "exit" ->
           IF p.context["exit"] = Undef THEN NameError([p EXCEPT !.exited = TRUE], "exit")
           ELSE Ok(UpdateUserVars([p EXCEPT !.exited = TRUE]))
      [] st.op = "div0" -> ZeroDivisionError(p)

RECURSIVE RunStmts_E(_, _)
\* An exception ends the action; else the statements that follow are run.
Continue_E(r, rest) == IF r.exc # "none" THEN r ELSE RunStmts_E(r.p, rest)

RunStmts_E(p, stmts) ==
    IF stmts = <<>> THEN Ok(p)
    ELSE Continue_E(ExecStmt_E(p, Head(stmts)), Tail(stmts))

RECURSIVE execute_action_E(_, _)
\* except NameError: a name not in the context is initialised to 0 and the
\* action is retried; except Exception: the error is reported
Conclude_E(r, action) ==
    IF r.exc = "name"
    THEN IF r.p.context[r.name] = Undef
         THEN execute_action_E([r.p EXCEPT !.user_vars[r.name] = Num(0),
                                           !.context[r.name] = Num(0)], action)
         ELSE r.p
    ELSE IF r.exc # "none" THEN [r.p EXCEPT !.err = Append(@, "action")]
    ELSE r.p

execute_action_E(p, action) ==
    IF action = <<>>
    THEN [p EXCEPT !.out = @ \o get_field_E(p, 0) \o <<NL>>]
    ELSE Conclude_E(RunStmts_E(p, action), action)

\* eval(condition, {"__builtins__": {}}, context)
condition_raises_E(p, pat) ==
    \/ pat.kind = "div0"
    \/ pat.kind = "gt" /\ GtRaises(Eval_E(p, pat.l), Eval_E(p, pat.r))

evaluate_condition_E(p, pat) ==
    IF pat.kind = "empty" THEN TRUE
    ELSE IF pat.kind = "div0" THEN FALSE
    ELSE IF pat.kind = "gt" THEN Gt(Eval_E(p, pat.l), Eval_E(p, pat.r))
    ELSE ReSearch(pat, get_field_E(p, 0))

\* ------------------------------------------------------------------ inputs
\* The lines a file may hold: "a b" and "aa", each with its newline.
Lines == { <<"a", " ", "b", NL>>, <<"a", "a", NL>> }

\* The field separators the processor may be constructed with (option -F).
Separators == { <<" ">>, <<",">>, <<>> }

ActEmpty == <<>>
ActHello == << print_args(<<Lit(<<"s">>), Lit(<<"t">>)>>) >>
ActPrint == << print_args(<<Field(1), Field(2)>>) >>
ActOFS == << assign("OFS", Str(<<"-">>)) >>
ActORS == << assign("ORS", Str(<<"!">>)) >>
ActFS == << assign("FS", Str(<<",">>)) >>
ActSet0 == << call_set_field(0, <<"b", " ", "b">>) >>
ActSet1 == << call_set_field(1, <<"x">>) >>
ActSet3 == << call_set_field(3, <<"x">>) >>
ActOfsSet == << assign("OFS", Str(<<"-">>)), call_set_field(1, <<"x">>) >>
ActExit == << exit_stmt >>
ActNR == << assign("NR", Num(7)) >>
ActNF == << assign("NF", Num(5)) >>

BeginRules == { Rule(PBegin, a) : a \in {ActHello, ActOFS, ActORS, ActFS, ActExit, ActSet3} }
EndRules == { Rule(PEnd, a) : a \in {ActHello, ActEmpty, ActPrint} }
PlainRules == { Rule(PEmpty, a) : a \in {ActEmpty, ActPrint, ActSet0, ActSet1, ActSet3,
                                         ActOfsSet, ActExit, ActFS, ActNR, ActNF} }
RegexRules == { Rule(PRegex(n, c), a) : n \in BOOLEAN, c \in {"b"}, a \in {ActEmpty, ActPrint} }
              \cup { Rule(PRegex(TRUE, "a"), ActEmpty) }
RuleSet == BeginRules \cup EndRules \cup PlainRules \cup RegexRules

\* Rules that show what the rule beside them did.
Observers == { Rule(PEmpty, ActPrint), Rule(PRegex(FALSE, "b"), ActEmpty),
               Rule(PRegex(TRUE, "a"), ActEmpty), Rule(PEnd, ActHello),
               Rule(PBegin, ActHello) }

\* The programs: every rule alone, every rule before and after an observer,
\* and a BEGIN rule, a main rule and an END rule together.
Programs ==
    { <<r>> : r \in RuleSet }
    \cup { <<r1, r2>> : r1 \in RuleSet, r2 \in Observers }
    \cup { <<r1, r2>> : r1 \in Observers, r2 \in RuleSet }
    \cup { <<Rule(PBegin, b), Rule(PEmpty, m), Rule(PEnd, ActHello)>> :
             b \in {ActExit, ActOFS}, m \in {ActPrint, ActExit} }

\* ------------------------------------------------------------------- state
VARIABLES
    variant,      \* which interpreter runs: "fixed" or "enhanced"
    rules,        \* the parsed program handed to process_file
    proc,         \* the AwkProcessor object, the output and the error stream
    pc,           \* where main is: "idle" between two calls of process_file,
                  \* "loop" at the head of the line loop, "rules" inside the
                  \* loop over the rules, "done", "exit1" (sys.exit(1))
    fileIdx,      \* the number of process_file calls made so far
    ruleIdx,      \* the rule the loop over the rules considers next
    recordsRead,  \* the number of lines read from all sources so far
    fileRecords,  \* the number of lines read from the source opened last
    considered,   \* the rules considered for the current record, in order
    leftLog,      \* the rules that had been considered for the record that
                  \* the line loop left last
    splitLog,     \* what the most recent record split did
    ruleLog,      \* what the most recent regex rule did
    call,         \* a call of a library function or of the program parser
                  \* made on its own: the function, its arguments, and the
                  \* result once it has returned
    ai            \* the module ai_providers: the environment it reads, its
                  \* global _ai_provider, and what its functions returned

vars == <<variant, rules, proc, pc, fileIdx, ruleIdx, recordsRead, fileRecords,
          considered, leftLog, splitLog, ruleLog, call, ai>>

NR == proc.NR
FNR == proc.FNR
NF == proc.NF
FS == proc.FS
OFS == proc.OFS
ORS == proc.ORS

NoLeftLog == [valid |-> FALSE, considered |-> <<>>]
NoSplitLog == [valid |-> FALSE, line |-> <<>>, fs |-> <<>>, flds |-> <<>>, NF |-> 0]
NoRuleLog == [valid |-> FALSE, re |-> PEmpty, field0 |-> <<>>, ran |-> FALSE,
              emptyAct |-> FALSE, text |-> <<>>]
NoCall == [fn |-> "none", args |-> <<>>, done |-> FALSE, raised |-> FALSE, result |-> <<>>]

\* The module ai_providers before it is used: no environment variable of its
\* own is set, there is no config file, and _ai_provider is None.
NoInstance == [cls |-> "None", id |-> 0, api_key |-> FALSE]
NoAiLog == [fn |-> "none", fresh |-> FALSE, raised |-> "", returned |-> NoInstance, text |-> ""]
NoEnviron == [PYAWK_AI_PROVIDER |-> "", keys |-> {}, config |-> "missing"]
NoAi == [environ |-> NoEnviron, _ai_provider |-> NoInstance, made |-> 0, first |-> NoInstance,
         log |-> NoAiLog]

\* What an action that starts on the processor p reads as NR, NF and the
\* fields: the fixed interpreter looks a name up in user_vars and then in the
\* built-in variables, the enhanced one in its context.
View(v, p) ==
    [valid |-> TRUE,
     NR |-> IF v = "fixed" THEN Lookup_F(p, [n \in BuiltinNames |-> BuiltinValue(p, n)], "NR")
            ELSE p.context["NR"],
     NF |-> IF v = "fixed" THEN Lookup_F(p, [n \in BuiltinNames |-> BuiltinValue(p, n)], "NF")
            ELSE p.context["NF"],
     fields |-> p.fields]

NoView == [valid |-> FALSE, NR |-> Undef, NF |-> Undef, fields |-> <<>>]

\* AwkProcessor.__init__(field_separator); runs counts, for each rule, the
\* executions of its action as a BEGIN or END action; lateBegin and earlyEnd
\* tell whether a BEGIN action ran after a record had been read and whether
\* a record was read after an END action had run; endView is what the first
\* END action of the most recent END phase read when it started; raised
\* counts the runtime errors raised by patterns and actions; assign is the
\* list of the -v options of the command line.
NewProcessor(fs, n) ==
    [NR |-> 0, FNR |-> 0, NF |-> 0, FS |-> fs, OFS |-> <<" ">>, ORS |-> <<NL>>,
     FILENAME |-> 0, fields |-> <<>>, current_line |-> <<>>,
     user_vars |-> NoVars, context |-> NoVars, out |-> <<>>, err |-> <<>>,
     asg |-> [FS |-> fs, OFS |-> <<" ">>, ORS |-> <<NL>>],
     sfLog |-> NoSetLog, prLog |-> NoPrintLog, asgLog |-> NoAsgLog, exited |-> FALSE,
     runs |-> [i \in 1..n |-> 0], lateBegin |-> FALSE, earlyEnd |-> FALSE,
     readAfterExit |-> FALSE, ranAfterExit |-> FALSE, endView |-> NoView,
     raised |-> 0, assign |-> <<>>]

Init ==
    /\ variant \in {"fixed", "enhanced"}
    /\ rules \in Programs
    /\ \E fs \in Separators : proc = NewProcessor(fs, Len(rules))
    /\ pc = "idle"
    /\ fileIdx = 0
    /\ ruleIdx = 1
    /\ recordsRead = 0
    /\ fileRecords = 0
    /\ considered = <<>>
    /\ leftLog = NoLeftLog
    /\ splitLog = NoSplitLog
    /\ ruleLog = NoRuleLog
    /\ call = NoCall
    /\ ai = NoAi

\* ------------------------------------------------------------------ driver
execute_action(v, p, action) ==
    IF v = "fixed" THEN execute_action_F(p, action) ELSE execute_action_E(p, action)

evaluate_condition(v, p, pat) ==
    IF v = "fixed" THEN evaluate_condition_F(p, pat) ELSE evaluate_condition_E(p, pat)

get_field(v, p, n) == IF v = "fixed" THEN get_field_F(p, n) ELSE get_field_E(p, n)

condition_raises(v, p, pat) ==
    IF v = "fixed" THEN condition_raises_F(p, pat) ELSE condition_raises_E(p, pat)

\* except Exception in evaluate_condition: the error raised by the pattern
\* is reported
ReportCondition(p) == [p EXCEPT !.raised = @ + 1, !.err = Append(@, "condition")]

RECURSIVE RunSpecial(_, _, _, _, _, _)
\* for condition, action in rules: if condition == kind: execute_action(...)
\* from rule i on; read is the number of records read so far.
RunSpecial(v, p, rs, i, kind, read) ==
    IF i > Len(rs) THEN p
    ELSE IF rs[i].pat.kind = kind
    THEN LET p1 == [p EXCEPT !.runs[i] = @ + 1,
                             !.lateBegin = @ \/ (kind = "BEGIN" /\ read > 0),
                             !.endView = IF kind = "END"
                                            /\ \A j \in 1..(i - 1) : rs[j].pat.kind # "END"
                                         THEN View(v, p) ELSE @]
         IN RunSpecial(v, execute_action(v, p1, rs[i].act), rs, i + 1, kind, read)
    ELSE RunSpecial(v, p, rs, i + 1, kind, read)

\* self.context = self.build_context()
WithContext(p) == [p EXCEPT !.context = build_context(p)]

\* The file n has been opened: FILENAME and FNR are set.
Opened(p, n) == [p EXCEPT !.FILENAME = n, !.FNR = 0]

\* The file could not be opened: the error is reported.
OpenFailed(p) == [p EXCEPT !.err = Append(@, "open")]

\* process_file up to the head of the line loop for file n, where ok tells
\* whether the file can be opened: the fixed interpreter runs the BEGIN rules
\* and then opens the file, the enhanced one opens the file, returns if that
\* fails, and runs the BEGIN rules otherwise.
process_file_head(v, p, rs, n, ok, read) ==
    IF v = "fixed"
    THEN IF ok THEN Opened(RunSpecial(v, p, rs, 1, "BEGIN", read), n)
         ELSE OpenFailed(RunSpecial(v, p, rs, 1, "BEGIN", read))
    ELSE IF ok THEN RunSpecial(v, WithContext(Opened(p, n)), rs, 1, "BEGIN", read)
         ELSE OpenFailed(p)

\* main calls process_file for the next file name; ok tells whether the file
\* can be opened.  The step runs process_file up to the head of the line loop.
StartFile(ok) ==
    /\ pc = "idle"
    /\ fileIdx < MaxFiles
    /\ fileIdx' = fileIdx + 1
    /\ proc' = process_file_head(variant, proc, rules, fileIdx + 1, ok, recordsRead)
    /\ pc' = IF ok THEN "loop" ELSE IF variant = "fixed" THEN "exit1" ELSE "idle"
    /\ fileRecords' = IF ok THEN 0 ELSE fileRecords
    /\ UNCHANGED <<ai, call, variant, rules, ruleIdx, recordsRead, considered, leftLog, splitLog,
                   ruleLog>>

\* The loop over the rules has ended, or the file has just been opened.
AtLineLoop == pc = "loop" \/ (pc = "rules" /\ ruleIdx > Len(rules))

\* What the line loop leaves behind when it goes on to the next line or ends.
Leave == IF pc = "rules" THEN [valid |-> TRUE, considered |-> considered] ELSE leftLog

\* self.vars.NR += 1; self.vars.FNR += 1
Counted(p, rs) ==
    [p EXCEPT !.NR = @ + 1, !.FNR = @ + 1,
              !.earlyEnd = @ \/ (\E i \in 1..Len(rs) :
                                   rs[i].pat.kind = "END" /\ p.runs[i] > 0),
              !.readAfterExit = @ \/ p.exited]

\* The line l becomes the current record and is split.
SplitLine(v, p, l) ==
    IF v = "fixed" THEN split_fields([p EXCEPT !.current_line = l], l)
    ELSE WithContext(split_record(p, RStripNl(l)))

\* for line in file_obj: the next line l is read and split
ReadRecord(l) ==
    /\ AtLineLoop
    /\ recordsRead < MaxRecords
    /\ proc' = SplitLine(variant, Counted(proc, rules), l)
    /\ splitLog' = [valid |-> TRUE, line |-> l, fs |-> proc.asg.FS,
                    flds |-> Tail(proc'.fields), NF |-> proc'.NF]
    /\ recordsRead' = recordsRead + 1
    /\ fileRecords' = fileRecords + 1
    /\ pc' = "rules"
    /\ ruleIdx' = 1
    /\ considered' = <<>>
    /\ leftLog' = Leave
    /\ UNCHANGED <<ai, call, variant, rules, fileIdx, ruleLog>>

\* The action of a rule that matched the record is executed (the enhanced
\* interpreter rebuilds its context after it).
RunMatched(v, p, action) ==
    IF v = "fixed"
    THEN execute_action_F([p EXCEPT !.ranAfterExit = @ \/ p.exited], action)
    ELSE WithContext(execute_action_E([p EXCEPT !.ranAfterExit = @ \/ p.exited], action))

\* The rule r is considered for the current record; m tells whether its
\* pattern matches, raises whether its evaluation raised an error.
ConsiderRule(r, m, raises) ==
    /\ proc' = IF m THEN RunMatched(variant, proc, r.act)
               ELSE IF raises THEN ReportCondition(proc)
               ELSE proc
    /\ considered' = Append(considered, ruleIdx)
    /\ ruleLog' = IF r.pat.kind = "regex"
                  THEN [valid |-> TRUE, re |-> r.pat,
                        field0 |-> get_field(variant, proc, 0), ran |-> m,
                        emptyAct |-> (r.act = <<>>),
                        text |-> SubSeq(proc'.out, Len(proc.out) + 1, Len(proc'.out))]
                  ELSE ruleLog

\* One iteration of "for condition, action in rules" for the current record.
RunRule ==
    /\ pc = "rules"
    /\ ruleIdx <= Len(rules)
    /\ IF IsMainRule(rules[ruleIdx])
       THEN ConsiderRule(rules[ruleIdx],
                         evaluate_condition(variant, proc, rules[ruleIdx].pat),
                         condition_raises(variant, proc, rules[ruleIdx].pat))
       ELSE UNCHANGED <<proc, considered, ruleLog>>
    /\ ruleIdx' = ruleIdx + 1
    /\ UNCHANGED <<ai, call, variant, rules, pc, fileIdx, recordsRead, fileRecords, leftLog, splitLog>>

\* end_phase written as if the END phase started from the initial counters
\* and an empty record.
end_phase_Initial(v, p) == [p EXCEPT !.NR = 0, !.NF = 0, !.fields = <<>>]

\* The processor as the END rules find it: the line loop has ended and
\* nothing has touched NR, NF or the fields since (the enhanced interpreter
\* rebuilds its context from them).
end_phase(v, p) == IF v = "fixed" THEN p ELSE WithContext(p)

\* The file is exhausted: the END rules run and process_file returns.
EndFile ==
    /\ AtLineLoop
    /\ proc' = RunSpecial(variant, end_phase(variant, proc), rules, 1, "END", recordsRead)
    /\ pc' = "idle"
    /\ leftLog' = Leave
    /\ UNCHANGED <<ai, call, variant, rules, fileIdx, ruleIdx, recordsRead, fileRecords, considered,
                   splitLog, ruleLog>>

\* The list of files is exhausted: main returns.
Finish ==
    /\ pc = "idle"
    /\ fileIdx >= 1
    /\ pc' = "done"
    /\ UNCHANGED <<ai, call, variant, rules, proc, fileIdx, ruleIdx, recordsRead, fileRecords,
                   considered, leftLog, splitLog, ruleLog>>

Next ==
    \/ \E ok \in BOOLEAN : StartFile(ok)
    \/ \E l \in Lines : ReadRecord(l)
    \/ RunRule
    \/ EndFile
    \/ Finish

Spec == Init /\ [][Next]_vars

\* ----------------------------------------------------- library functions
\* Python's s[a:b] for integers a and b: a negative index counts from the
\* end, and both are clipped to 0..len(s).
PyIndex(s, i) == IF i < 0 THEN (IF Len(s) + i < 0 THEN 0 ELSE Len(s) + i)
                 ELSE IF i > Len(s) THEN Len(s) ELSE i

Slice(s, a, b) == SubSeq(s, PyIndex(s, a) + 1, PyIndex(s, b))

\* An optional argument: omitted (None) or the integer n.
None == [given |-> FALSE, n |-> 0]
Some(n) == [given |-> TRUE, n |-> n]

\* AwkFunctions.substr of pyawk_ai_fixed.py, after start = max(1, int(start))
SubstrFrom_F(str, start, length) ==
    IF start > Len(str) THEN <<>>
    ELSE IF ~length.given THEN Slice(str, start - 1, Len(str))
    ELSE IF length.n <= 0 THEN <<>>
    ELSE Slice(str, start - 1, start - 1 + length.n)

substr_F(str, start, length) == SubstrFrom_F(str, IF 1 >= start THEN 1 ELSE start, length)

\* AwkFunctions.substr of pyawk_ai_enhanced.py, after start = int(start) - 1
\* and the clamp of a negative start to 0
SubstrFrom_E(str, start, length) ==
    IF ~length.given THEN Slice(str, start, Len(str))
    ELSE Slice(str, start, start + length.n)

substr_E(str, start, length) == SubstrFrom_E(str, IF start - 1 < 0 THEN 0 ELSE start - 1, length)

\* The strings, starts and lengths substr is called with.
MaxStrLen == 3
MaxStart == 5
MaxLength == 4
Letters == <<"a", "b", "c", "d", "e", "f">>
Strings == { SubSeq(Letters, 1, n) : n \in 0..MaxStrLen }
Starts == (0 - 2)..MaxStart
Lengths == {None} \cup { Some(n) : n \in (0 - 2)..MaxLength }

\* The driver stands still while a library function is called on its own.
DriverIdle ==
    /\ ai = NoAi
    /\ rules = <<>>
    /\ proc = NewProcessor(<<" ">>, 0)
    /\ pc = "lib"
    /\ fileIdx = 0
    /\ ruleIdx = 1
    /\ recordsRead = 0
    /\ fileRecords = 0
    /\ considered = <<>>
    /\ leftLog = NoLeftLog
    /\ splitLog = NoSplitLog
    /\ ruleLog = NoRuleLog

driverVars == <<variant, rules, proc, pc, fileIdx, ruleIdx, recordsRead, fileRecords,
                considered, leftLog, splitLog, ruleLog, ai>>

\* The call returns the value r.
Return(r) == call' = [call EXCEPT !.done = TRUE, !.result = r]

SubstrCalls ==
    { [NoCall EXCEPT !.fn = "substr", !.args = <<str, start, length>>] :
        str \in Strings, start \in Starts, length \in Lengths }

CallSubstr ==
    /\ call.fn = "substr" /\ ~call.done
    /\ Return(IF variant = "fixed" THEN substr_F(call.args[1], call.args[2], call.args[3])
              ELSE substr_E(call.args[1], call.args[2], call.args[3]))
    /\ UNCHANGED driverVars

\* What the configured provider does: get_ai_provider() gives no provider
\* (present is FALSE), or one whose call_api raises, returns None, or returns
\* the string text.
NoProvider == [present |-> FALSE, raises |-> FALSE, none |-> FALSE, text |-> <<>>]
Provider(raises, none, text) == [present |-> TRUE, raises |-> raises, none |-> none, text |-> text]
Providers ==
    { NoProvider, Provider(TRUE, FALSE, <<>>), Provider(FALSE, TRUE, <<>>),
      Provider(FALSE, FALSE, <<>>), Provider(FALSE, FALSE, <<"o", "k">>) }

\* SimulatedAIProvider.call_api, the class pyawk_ai_fixed.py defines when the
\* import fails: f"[Simulated: {prompt[:30]}...]" (each literal is one piece)
SimulatedAIProvider(prompt) == <<"[Simulated: ">> \o Slice(prompt, 0, 30) \o <<"...]">>

\* SimulatedProvider.call_api for a prompt that holds none of its keywords:
\* "AI-generated response: " + str(prompt)[:50] + "..."
SimulatedProvider(prompt) == <<"AI-generated response: ">> \o Slice(prompt, 0, 50) \o <<"...">>

\* AwkFunctions.ai_call of pyawk_ai_fixed.py: `if response:` takes a string
\* that is not empty
ai_call_F(prompt, provider) ==
    IF provider.present /\ ~provider.raises /\ ~provider.none /\ provider.text # <<>>
    THEN provider.text
    ELSE SimulatedAIProvider(prompt)

\* The import of ai_providers at the head of pyawk_ai_enhanced.py succeeds:
\* the module is in the repository and imports the standard library only.
AI_AVAILABLE == TRUE

\* AwkFunctions.ai_call of pyawk_ai_enhanced.py: `if response is not None:`
\* takes every string
ai_call_E(prompt, provider) ==
    IF AI_AVAILABLE /\ provider.present /\ ~provider.raises /\ ~provider.none
    THEN provider.text
    ELSE SimulatedProvider(prompt)

AiCalls ==
    { [NoCall EXCEPT !.fn = "ai_call", !.args = <<prompt, provider>>] :
        prompt \in Strings, provider \in Providers }

CallAi ==
    /\ call.fn = "ai_call" /\ ~call.done
    /\ Return(IF variant = "fixed" THEN ai_call_F(call.args[1], call.args[2])
              ELSE ai_call_E(call.args[1], call.args[2]))
    /\ UNCHANGED driverVars

\* ------------------------------------------------------------ the parser
\* A program text is a sequence of pieces: the words BEGIN and END, the
\* braces, the space, the newline, and other words (patterns, statements),
\* which the parser never looks into.
RECURSIVE LStrip(_)
LStrip(s) == IF s # <<>> /\ IsWs(Head(s)) THEN LStrip(Tail(s)) ELSE s

RECURSIVE RStrip(_)
RStrip(s) == IF s # <<>> /\ IsWs(s[Len(s)]) THEN RStrip(SubSeq(s, 1, Len(s) - 1)) ELSE s

\* s.strip()
Strip(s) == RStrip(LStrip(s))

\* The first index from `from` on where s holds t, or 0; the last index, or 0.
Find(s, t, from) ==
    IF \E i \in from..Len(s) : s[i] = t
    THEN CHOOSE i \in from..Len(s) : s[i] = t /\ \A j \in from..(i - 1) : s[j] # t
    ELSE 0

RFind(s, t) ==
    IF \E i \in 1..Len(s) : s[i] = t
    THEN CHOOSE i \in 1..Len(s) : s[i] = t /\ \A j \in (i + 1)..Len(s) : s[j] # t
    ELSE 0

RECURSIVE SkipWs(_, _)
SkipWs(s, i) == IF i <= Len(s) /\ IsWs(s[i]) THEN SkipWs(s, i + 1) ELSE i

\* A match of kw\s*{([^}]*)} that starts at i and has its opening brace at
\* open: the index of the closing brace (the first one after open), or 0.
CloseFrom(s, kw, i, open) ==
    IF s[i] = kw /\ open <= Len(s) /\ s[open] = "{" THEN Find(s, "}", open + 1) ELSE 0

BlockClose(s, kw, i) == CloseFrom(s, kw, i, SkipWs(s, i + 1))

\* re.search: the start of the leftmost match from `from` on, or 0
SearchBlock(s, kw, from) ==
    IF \E i \in from..Len(s) : BlockClose(s, kw, i) # 0
    THEN CHOOSE i \in from..Len(s) :
           BlockClose(s, kw, i) # 0 /\ \A j \in from..(i - 1) : BlockClose(s, kw, j) = 0
    ELSE 0

\* match.group(1).strip() of the match that starts at i
Group1(s, kw, i) == Strip(SubSeq(s, Find(s, "{", i) + 1, BlockClose(s, kw, i) - 1))

RECURSIVE ReplaceAll(_, _)
\* s.replace(sub, '')
ReplaceAll(s, sub) ==
    IF sub = <<>> \/ Len(s) < Len(sub) THEN s
    ELSE IF SubSeq(s, 1, Len(sub)) = sub THEN ReplaceAll(SubSeq(s, Len(sub) + 1, Len(s)), sub)
    ELSE <<Head(s)>> \o ReplaceAll(Tail(s), sub)

\* A rule as the parser returns it: the pattern text and the action text
\* ("" and None are both the empty pattern).
TextRule(pattern, action) == [pattern |-> pattern, action |-> action]

\* pyawk_ai_fixed.py ---------------------------------------------------------
\* The first block of the kind kw, found at b (0: none): the rule it gives
\* and the program with every copy of the block's text removed.
TakeBlock(program, kw, b) ==
    [rules |-> IF b = 0 THEN <<>> ELSE <<TextRule(<<kw>>, Group1(program, kw, b))>>,
     rest |-> IF b = 0 THEN program
              ELSE ReplaceAll(program, SubSeq(program, b, BlockClose(program, kw, b)))]

\* pattern { action }: the pattern is what stands before the first opening
\* brace, the action what stands between it and the last closing brace
PatternAction_F(remaining, open) ==
    IF RFind(remaining, "}") > open
    THEN <<TextRule(Strip(SubSeq(remaining, 1, open - 1)),
                    Strip(SubSeq(remaining, open + 1, RFind(remaining, "}") - 1)))>>
    ELSE <<>>

MainRule_F(remaining) ==
    IF remaining = <<>> THEN <<>>
    ELSE IF Head(remaining) = "{" /\ remaining[Len(remaining)] = "}"
    THEN <<TextRule(<<>>, Strip(SubSeq(remaining, 2, Len(remaining) - 1)))>>
    ELSE IF Find(remaining, "{", 1) # 0 /\ Find(remaining, "}", 1) # 0
    THEN PatternAction_F(remaining, Find(remaining, "{", 1))
    ELSE <<TextRule(remaining, <<>>)>>

ParseMain_F(rs, t) == rs \o t.rules \o MainRule_F(Strip(t.rest))

ParseEnd_F(t) == ParseMain_F(t.rules, TakeBlock(t.rest, "END", SearchBlock(t.rest, "END", 1)))

parse_awk_program_F(program) ==
    IF program = <<>> THEN <<>>
    ELSE ParseEnd_F(TakeBlock(program, "BEGIN", SearchBlock(program, "BEGIN", 1)))

\* pyawk_ai_enhanced.py ------------------------------------------------------
RECURSIVE BlockRules(_, _, _)
\* re.finditer: a rule for every match, left to right, none overlapping
BlockRulesFrom(program, kw, b) ==
    IF b = 0 THEN <<>>
    ELSE <<TextRule(<<kw>>, Group1(program, kw, b))>>
         \o BlockRules(program, kw, BlockClose(program, kw, b) + 1)

BlockRules(program, kw, from) == BlockRulesFrom(program, kw, SearchBlock(program, kw, from))

RECURSIVE RemoveBlocks(_, _)
\* re.sub(pattern, '', program)
RemoveFrom(program, kw, b) ==
    IF b = 0 THEN program
    ELSE SubSeq(program, 1, b - 1)
         \o RemoveBlocks(SubSeq(program, BlockClose(program, kw, b) + 1, Len(program)), kw)

RemoveBlocks(program, kw) == RemoveFrom(program, kw, SearchBlock(program, kw, 1))

\* line.count(t)
Count(s, t) == Cardinality({ i \in 1..Len(s) : s[i] = t })

\* parts[1].rsplit('}', 1)[0] of rule.split('{', 1)
ActionPart_E(rule, open, close) ==
    SubSeq(rule, open + 1, IF close > open THEN close - 1 ELSE Len(rule))

CompleteRule_E(rule) ==
    IF Find(rule, "{", 1) # 0
    THEN <<TextRule(Strip(SubSeq(rule, 1, Find(rule, "{", 1) - 1)),
                    Strip(ActionPart_E(rule, Find(rule, "{", 1), RFind(rule, "}"))))>>
    ELSE <<TextRule(rule, <<>>)>>

RECURSIVE ParseLines_E(_, _, _)
\* the line has been added to current_rule and counted into brace_count
AddLine_E(lines, current_rule, brace_count) ==
    IF brace_count = 0 /\ Strip(current_rule) # <<>>
    THEN CompleteRule_E(Strip(current_rule)) \o ParseLines_E(lines, <<>>, 0)
    ELSE ParseLines_E(lines, current_rule, brace_count)

TakeLine_E(lines, line, current_rule, brace_count) ==
    IF line = <<>> \/ Head(line) = "#" THEN ParseLines_E(lines, current_rule, brace_count)
    ELSE AddLine_E(lines, current_rule \o line \o <<" ">>,
                   brace_count + Count(line, "{") - Count(line, "}"))

ParseLines_E(lines, current_rule, brace_count) ==
    IF lines = <<>> THEN <<>>
    ELSE TakeLine_E(Tail(lines), Strip(Head(lines)), current_rule, brace_count)

parse_awk_program_E(program) ==
    BlockRules(program, "BEGIN", 1) \o BlockRules(program, "END", 1)
    \o ParseLines_E(SplitOn(RemoveBlocks(RemoveBlocks(program, "BEGIN"), "END"), NL), <<>>, 0)

\* Program texts, each written from a list of rules: a rule with an action
\* is "pattern { action }", a rule without one is the pattern alone; BEGIN and
\* END blocks are rules with the pattern BEGIN or END.
MaxTextRules == 2

SimpleAction == <<"s">>
NestedAction == <<"i", " ", "{", " ", "t", " ", "}">>

Source(pattern, action) ==
    [text |-> (IF pattern = <<>> THEN <<>> ELSE pattern \o <<" ">>)
              \o <<"{", " ">> \o action \o <<" ", "}">>,
     rule |-> TextRule(pattern, action)]

PatternOnly(pattern) == [text |-> pattern, rule |-> TextRule(pattern, <<>>)]

Sources ==
    { Source(pattern, action) : pattern \in {<<"BEGIN">>, <<"END">>, <<"p">>, <<>>},
                                action \in {SimpleAction, NestedAction} }
    \cup {PatternOnly(<<"q">>)}

\* Two rules stand on one line or on two; a rule without an action ends its line.
Glues(before) == IF before.action = <<>> THEN {<<NL>>} ELSE {<<" ">>, <<NL>>}

RECURSIVE TextsOf(_)
TextsOf(n) ==
    IF n = 1 THEN { [text |-> x.text, rules |-> <<x.rule>>] : x \in Sources }
    ELSE UNION { { [text |-> a.text \o g \o x.text, rules |-> Append(a.rules, x.rule)]
                   : g \in Glues(a.rules[Len(a.rules)]), x \in Sources }
                 : a \in TextsOf(n - 1) }

ProgramTexts == UNION { TextsOf(n) : n \in 1..MaxTextRules }

\* parse_awk_program(text); the second argument records the rules the text
\* was written from and is not read by the parser.
ParseCalls ==
    { [NoCall EXCEPT !.fn = "parse_awk_program", !.args = <<t.text, t.rules>>] : t \in ProgramTexts }

CallParse ==
    /\ call.fn = "parse_awk_program"
    /\ ~call.done
    /\ Return(IF variant = "fixed" THEN parse_awk_program_F(call.args[1])
              ELSE parse_awk_program_E(call.args[1]))
    /\ UNCHANGED driverVars

\* ------------------------------------------------------- sub and gsub
\* The text t put before the text of a substitution result.
Prepend(t, r) == [r EXCEPT !.text = t \o @]

RECURSIVE SubnFrom(_, _, _, _, _)
\* re.subn(pattern, replacement, s, count) for a pattern of one literal
\* character and a replacement without escapes: the new text and the number
\* of substitutions; once tells that count is 1, made counts the ones made.
SubnFrom(pattern, replacement, s, once, made) ==
    IF s = <<>> THEN [text |-> <<>>, count |-> made]
    ELSE IF Head(s) = pattern /\ ~(once /\ made >= 1)
    THEN Prepend(replacement, SubnFrom(pattern, replacement, Tail(s), once, made + 1))
    ELSE Prepend(<<Head(s)>>, SubnFrom(pattern, replacement, Tail(s), once, made))

\* AwkFunctions.sub and AwkFunctions.gsub of pyawk_ai_fixed.py return the new
\* string (gsub is called with a target here)
sub_F(regex, replacement, target) == Str(SubnFrom(regex, replacement, target, TRUE, 0).text)

gsub_F(regex, replacement, target) == Str(SubnFrom(regex, replacement, target, FALSE, 0).text)

\* AwkFunctions.sub and AwkFunctions.gsub of pyawk_ai_enhanced.py return the
\* number of substitutions
sub_E(pattern, replacement, target) == Num(SubnFrom(pattern, replacement, target, TRUE, 0).count)

gsub_E(pattern, replacement, target) == Num(SubnFrom(pattern, replacement, target, FALSE, 0).count)

\* The statement n = gsub(re, repl, s) of an action, s being a variable that
\* holds the string target: the function is handed the value of s, builds
\* the new string in a local variable, and s keeps its value.
AfterCall(value, target) == [value |-> value, target |-> target]

SubTargets == { <<>>, <<"b">>, <<"a", "a">>, <<"a", "b", "a">> }
SubReplacements == { <<>>, <<"x">>, <<"y", "y">> }

SubCalls ==
    { [NoCall EXCEPT !.fn = fn, !.args = <<"a", replacement, target>>] :
        fn \in {"sub", "gsub"}, replacement \in SubReplacements, target \in SubTargets }

CallSub ==
    /\ call.fn = "sub" /\ ~call.done
    /\ Return(AfterCall(IF variant = "fixed" THEN sub_F(call.args[1], call.args[2], call.args[3])
                        ELSE sub_E(call.args[1], call.args[2], call.args[3]),
                        call.args[3]))
    /\ UNCHANGED driverVars

CallGsub ==
    /\ call.fn = "gsub" /\ ~call.done
    /\ Return(AfterCall(IF variant = "fixed" THEN gsub_F(call.args[1], call.args[2], call.args[3])
                        ELSE gsub_E(call.args[1], call.args[2], call.args[3]),
                        call.args[3]))
    /\ UNCHANGED driverVars

\* ----------------------------------------------------------- sprintf
\* AwkFunctions.sprintf of pyawk_ai_fixed.py (the enhanced interpreter has no
\* sprintf).  The formats of the model hold no '-', no '.', no 'f' and no
\* 'e'; indices are Python's, counted from 0.
\* A conversion found in the format: its letter, its start and its end.
Conversion(fmt_type, start, end) == [fmt_type |-> fmt_type, start |-> start, end |-> end]

RECURSIVE DigitsEnd(_, _)
\* The index after the run of digits that starts at index i.
DigitsEnd(s, i) == IF i < Len(s) /\ IsDigit(s[i + 1]) THEN DigitsEnd(s, i + 1) ELSE i

\* re.match(r'%([-]?\d*\.?\d*)([sdfe])', result[i:]) where result[i] is '%':
\* the index after the match, or 0 if there is none; j is the index after
\* the digits that follow the '%'.
MatchEnd(result, j) ==
    IF j < Len(result) /\ result[j + 1] \in {"s", "d", "f", "e"} THEN j + 1 ELSE 0

RECURSIVE ScanFrom(_, _)
\* The branch of the scan for a '%' at index i that is followed by neither
\* 's', 'd', 'f' nor '%': m is the end of the regex match or 0.
ScanWidth(result, i, m) ==
    IF m = 0 THEN ScanFrom(result, i + 1)
    ELSE <<Conversion(result[m], i, m)>> \o ScanFrom(result, m)

\* while i < len(result): ... i += 1, from index i on
ScanFrom(result, i) ==
    IF i >= Len(result) THEN <<>>
    ELSE IF result[i + 1] # "%" \/ i + 1 >= Len(result) THEN ScanFrom(result, i + 1)
    ELSE IF result[i + 2] \in {"s", "d", "f"}
    THEN <<Conversion(result[i + 2], i, i + 2)>> \o ScanFrom(result, i + 1)
    ELSE IF result[i + 2] = "%" THEN ScanFrom(result, i + 2)
    ELSE ScanWidth(result, i, MatchEnd(result, DigitsEnd(result, i + 1)))

\* float(arg) raises ValueError: the argument is a string that is no number
NotANumber(arg) == arg.t = "str" /\ ~IsInt(arg.s) /\ ~IsFloat(arg.s)

\* int(float(arg)) for a number or a string of digits
IntValue(arg) == IF arg.t = "str" THEN IntOf(arg.s) ELSE arg.n

\* re.match(r'%([-]?)(\d+)', fmt_spec): the width, or 0 if there is no match
\* (a width of 0 pads nothing); j is the index after the digits from index 1.
Width(fmt_spec, j) ==
    IF fmt_spec # <<>> /\ fmt_spec[1] = "%" /\ j > 1 THEN IntOf(Slice(fmt_spec, 1, j)) ELSE 0

RECURSIVE RJust(_, _)
\* s.rjust(width)
RJust(s, width) == IF Len(s) >= width THEN s ELSE RJust(<<" ">> \o s, width)

\* The replacement for the argument arg of a conversion whose text is read
\* as fmt_spec.
Replacement(fmt_type, arg, fmt_spec) ==
    RJust(IF fmt_type = "d" THEN StrOfNat(IntValue(arg)) ELSE PyStr(arg),
          Width(fmt_spec, DigitsEnd(fmt_spec, 1)))

\* result[:start] + replacement + result[end:], where the replacement is
\* made for the text that result holds from start to end
Replaced(result, c, arg) ==
    Slice(result, 0, c.start)
    \o Replacement(c.fmt_type, arg, Slice(result, c.start, c.end))
    \o Slice(result, c.end, Len(result))

RECURSIVE ApplyReplacements(_, _, _)
\* for fmt_type, start, end in replacements: if arg_index < len(args): ...
\* The conversions are replaced first to last, each at the indices that the
\* scan of the format gave it.
ApplyReplacements(result, replacements, args) ==
    IF replacements = <<>> \/ args = <<>> THEN [raised |-> FALSE, text |-> result]
    ELSE IF Head(replacements).fmt_type = "d" /\ NotANumber(Head(args))
    THEN [raised |-> TRUE, text |-> <<>>]
    ELSE ApplyReplacements(Replaced(result, Head(replacements), Head(args)),
                           Tail(replacements), Tail(args))

sprintf(format_str, args) == ApplyReplacements(format_str, ScanFrom(format_str, 0), args)

\* The formats: up to MaxFormatPieces pieces, each a conversion, "%%", a
\* lone '%' or a letter; the arguments: up to MaxArgs values.
MaxFormatPieces == 3
MaxArgs == 2

FormatPieces == { <<"%", "s">>, <<"%", "d">>, <<"%", "2", "s">>, <<"%", "%">>, <<"%">>, <<"a">> }

RECURSIVE FormatsOf(_)
FormatsOf(n) == IF n = 0 THEN { <<>> } ELSE { f \o q : f \in FormatsOf(n - 1), q \in FormatPieces }

Formats == UNION { FormatsOf(n) : n \in 1..MaxFormatPieces }

ArgValues == { Str(<<>>), Str(<<"a", "b", "c">>), Num(7), Num(12) }

RECURSIVE ArgListsOf(_)
ArgListsOf(n) == IF n = 0 THEN { <<>> } ELSE { Append(l, a) : l \in ArgListsOf(n - 1), a \in ArgValues }

ArgLists == UNION { ArgListsOf(n) : n \in 0..MaxArgs }

SprintfCalls ==
    { [NoCall EXCEPT !.fn = "sprintf", !.args = <<format_str, args>>] :
        format_str \in Formats, args \in ArgLists }

CallSprintf ==
    /\ call.fn = "sprintf" /\ ~call.done
    /\ Return(sprintf(call.args[1], call.args[2]))
    /\ UNCHANGED driverVars

\* ------------------------------------------------------------- srand
\* The seeds that a call without a seed may take from the clock (the
\* enhanced interpreter) or from the operating system (the fixed one).
ClockSeeds == {8, 9}

\* AwkFunctions.srand of pyawk_ai_fixed.py seeds the generator with sown and
\* returns 0.
srand_F(sown) == [returned |-> Num(0), sown |-> sown]

\* AwkFunctions.srand of pyawk_ai_enhanced.py seeds the generator with sown
\* and returns that seed.
srand_E(sown) == [returned |-> Num(sown), sown |-> sown]

\* The runs of srand calls: up to MaxSrandCalls calls, each with the seed 1,
\* the seed 2 or no seed.
MaxSrandCalls == 3

RECURSIVE SeedListsOf(_)
SeedListsOf(n) ==
    IF n = 0 THEN { <<>> }
    ELSE { Append(l, seed) : l \in SeedListsOf(n - 1), seed \in {None, Some(1), Some(2)} }

SrandCalls ==
    { [NoCall EXCEPT !.fn = "srand", !.args = <<seeds>>] :
        seeds \in UNION { SeedListsOf(n) : n \in 1..MaxSrandCalls } }

\* The next call of the run: srand(seed), or srand() which seeds with the
\* value t; the result of the run is the list of what the calls returned
\* and sowed.
Srand(seed, t) ==
    /\ call' = [call EXCEPT !.result = Append(@, IF variant = "fixed"
                                                 THEN srand_F(IF seed.given THEN seed.n ELSE t)
                                                 ELSE srand_E(IF seed.given THEN seed.n ELSE t)),
                            !.done = Len(call.result) + 1 = Len(call.args[1])]
    /\ UNCHANGED driverVars

CallSrand ==
    /\ call.fn = "srand" /\ ~call.done
    /\ \E t \in ClockSeeds : Srand(call.args[1][Len(call.result) + 1], t)

\* ------------------------------------------- the library functions on their own
InitLib ==
    /\ variant \in {"fixed", "enhanced"}
    /\ DriverIdle
    /\ \/ call \in SubstrCalls
       \/ call \in AiCalls
       \/ call \in ParseCalls
       \/ call \in SubCalls
       \/ call \in SprintfCalls /\ variant = "fixed"
       \/ call \in SrandCalls

NextLib ==
    CallSubstr \/ CallAi \/ CallParse \/ CallSub \/ CallGsub \/ CallSprintf \/ CallSrand

SpecLib == InitLib /\ [][NextLib]_vars

\* --------------------------------------- main with -v options (SpecExt)
\* try: val = int(val) / except ValueError: try: val = float(val) /
\* except ValueError: pass
Infer(val) ==
    IF IsInt(val) THEN Num(IntOf(val))
    ELSE IF IsFloat(val) THEN Flt(FloatOf(val))
    ELSE Str(val)

\* Assigned written as if a name kept the first value assigned to it.
Assigned_KeepFirst(user_vars, assignment, eq) ==
    IF eq = 0 \/ user_vars[assignment[1]] # Undef THEN user_vars
    ELSE [user_vars EXCEPT ![assignment[1]] = Infer(SubSeq(assignment, eq + 1, Len(assignment)))]

\* if '=' in assignment: var, val = assignment.split('=', 1);
\* user_vars[var] = val (the names of the model are one letter long); eq is
\* the index of the first '=' or 0.
Assigned(user_vars, assignment, eq) ==
    IF eq = 0 THEN user_vars
    ELSE [user_vars EXCEPT ![assignment[1]] = Infer(SubSeq(assignment, eq + 1, Len(assignment)))]

RECURSIVE ParseAssignments(_, _)
\* for assignment in args.assign: ...
ParseAssignments(assigns, user_vars) ==
    IF assigns = <<>> THEN user_vars
    ELSE ParseAssignments(Tail(assigns),
                          Assigned(user_vars, Head(assigns), Find(Head(assigns), "=", 1)))

\* processor = AwkProcessor(field_separator); processor.user_vars.update(user_vars)
Preassigned(p, assigns) ==
    [p EXCEPT !.user_vars = ParseAssignments(assigns, @), !.assign = assigns]

\* The -v options: x=value for some value texts, and a text without '='.
MaxAssign == 2

AssignValues == { <<"5">>, <<"0", "5">>, <<"1", "0">>, <<"1", ".", "5">>, <<"a", "b">>, <<>> }

Assignments == { <<"x", "=">> \o v : v \in AssignValues }

RECURSIVE AssignListsOf(_)
AssignListsOf(n) ==
    IF n = 1 THEN { <<a>> : a \in Assignments }
    ELSE { Append(l, a) : l \in AssignListsOf(n - 1), a \in Assignments \cup {<<"x">>} }

AssignLists == UNION { AssignListsOf(n) : n \in 1..MaxAssign }

\* The lines of the input files of these runs: "10 9", "9 10" and "ab 9".
ExtLines == { <<"1", "0", " ", "9", NL>>, <<"9", " ", "1", "0", NL>>, <<"a", "b", " ", "9", NL>> }

ActDiv0 == << assign_div0("x") >>
ActMidDiv0 == << print_args(<<Lit(<<"s">>)>>), assign_div0("x"), print_args(<<Lit(<<"t">>)>>) >>
ActPrintX == << print_args(<<Var("x")>>) >>
ActPrintThenX == << print_args(<<Lit(<<"s">>)>>), print_args(<<Var("x")>>) >>
ActSetX == << assign("x", Num(3)) >>
ActSetFieldsum == << assign("fieldsum", Num(3)) >>
ActPrintFieldsum == << print_args(<<Var("fieldsum")>>) >>

\* Programs whose patterns or actions raise a runtime error, and programs
\* with a comparison as pattern.
ErrorPrograms ==
    { <<Rule(PEmpty, ActDiv0), Rule(PEmpty, ActPrint), Rule(PEnd, ActHello)>>,
      <<Rule(PDiv0, ActHello), Rule(PEmpty, ActPrint), Rule(PEnd, ActHello)>>,
      <<Rule(PBegin, ActDiv0), Rule(PEmpty, ActPrint), Rule(PEnd, ActHello)>>,
      <<Rule(PEmpty, ActMidDiv0), Rule(PEnd, ActDiv0), Rule(PEnd, ActHello)>>,
      <<Rule(PEmpty, ActPrintThenX), Rule(PEnd, ActHello)>> }

ComparePrograms ==
    { <<Rule(PGt(Field(1), Field(2)), ActEmpty)>>,
      <<Rule(PGt(Field(2), Field(1)), ActEmpty), Rule(PEnd, ActHello)>>,
      <<Rule(PGt(Field(1), Const(9)), ActEmpty), Rule(PEmpty, ActPrint)>> }

\* Programs that assign a user variable and read it in a later rule and in
\* the END rule.
UserVarPrograms ==
    { <<Rule(PEmpty, ActSetX), Rule(PEmpty, ActPrintX), Rule(PEnd, ActPrintX)>>,
      <<Rule(PEmpty, ActSetFieldsum), Rule(PEmpty, ActPrintFieldsum),
        Rule(PEnd, ActPrintFieldsum)>> }

\* Programs that read the variable x, run with -v options that assign it.
XPrograms ==
    { <<Rule(PBegin, ActPrintX), Rule(PEmpty, ActPrintX), Rule(PEnd, ActPrintX)>>,
      <<Rule(PGt(Var("x"), Field(2)), ActEmpty)>> }

InitExt ==
    /\ variant \in {"fixed", "enhanced"}
    /\ \/ /\ rules \in ErrorPrograms \cup ComparePrograms \cup UserVarPrograms
          /\ proc = NewProcessor(<<" ">>, Len(rules))
       \/ /\ rules \in XPrograms
          /\ \E assigns \in AssignLists :
               proc = Preassigned(NewProcessor(<<" ">>, Len(rules)), assigns)
    /\ pc = "idle"
    /\ fileIdx = 0
    /\ ruleIdx = 1
    /\ recordsRead = 0
    /\ fileRecords = 0
    /\ considered = <<>>
    /\ leftLog = NoLeftLog
    /\ splitLog = NoSplitLog
    /\ ruleLog = NoRuleLog
    /\ call = NoCall
    /\ ai = NoAi

NextExt ==
    \/ \E ok \in BOOLEAN : StartFile(ok)
    \/ \E l \in ExtLines : ReadRecord(l)
    \/ RunRule
    \/ EndFile
    \/ Finish

SpecExt == InitExt /\ [][NextExt]_vars

\* ------------------------------------------------ ai_providers (SpecProv)
\* os.environ and the config file as the module reads them:
\* PYAWK_AI_PROVIDER, the key variables set to a non-empty value, and
\* ~/.pyawk/config.json, which is missing, is invalid JSON, is an object
\* without keys ("empty"), is an object with the one key anthropic_api_key,
\* openai_api_key, gemini_api_key or google_api_key, or is JSON that is not
\* an object ("list").
KeyVars == {"ANTHROPIC_API_KEY", "OPENAI_API_KEY", "GEMINI_API_KEY", "GOOGLE_API_KEY",
            "LOCAL_AI_URL"}
ProviderNames == {"", "anthropic", "openai", "gemini", "local", "Gemini", "ollama"}
Configs == {"missing", "invalid", "empty", "anthropic", "openai", "gemini", "google", "list"}

\* str.lower() for the names of the model
Lower(name) == IF name = "Gemini" THEN "gemini" ELSE name

\* The if chain of get_ai_provider over the environment; provider is the
\* lowered PYAWK_AI_PROVIDER.  "config" stands for the else branch.
SelectByEnviron(provider, keys) ==
    IF provider = "anthropic" \/ "ANTHROPIC_API_KEY" \in keys THEN "AnthropicProvider"
    ELSE IF provider = "openai" \/ "OPENAI_API_KEY" \in keys THEN "OpenAIProvider"
    ELSE IF provider = "gemini" \/ "GEMINI_API_KEY" \in keys \/ "GOOGLE_API_KEY" \in keys
    THEN "GeminiProvider"
    ELSE IF provider = "local" \/ "LOCAL_AI_URL" \in keys THEN "LocalAIProvider"
    ELSE "config"

\* The else branch: the config file is opened and loaded, and config.get is
\* called; a missing or invalid file gives the simulated provider, JSON that
\* is not an object raises AttributeError.
SelectByConfig(config) ==
    CASE config = "anthropic" -> "AnthropicProvider"
      [] config = "openai" -> "OpenAIProvider"
      [] config \in {"gemini", "google"} -> "GeminiProvider"
      [] config = "list" -> "AttributeError"
      [] OTHER -> "SimulatedProvider"

SelectClass(environ) ==
    IF SelectByEnviron(Lower(environ.PYAWK_AI_PROVIDER), environ.keys) = "config"
    THEN SelectByConfig(environ.config)
    ELSE SelectByEnviron(Lower(environ.PYAWK_AI_PROVIDER), environ.keys)

\* The environment variables and the config keys that get_api_key of a
\* class reads (LocalAIProvider and SimulatedProvider read none).
KeySources(cls) ==
    CASE cls = "AnthropicProvider" -> [vars |-> {"ANTHROPIC_API_KEY"}, config |-> {"anthropic"}]
      [] cls = "OpenAIProvider" -> [vars |-> {"OPENAI_API_KEY"}, config |-> {"openai"}]
      [] cls = "GeminiProvider" -> [vars |-> {"GEMINI_API_KEY", "GOOGLE_API_KEY"},
                                    config |-> {"gemini", "google"}]
      [] OTHER -> [vars |-> {}, config |-> {}]

\* get_api_key raises: no variable of the class is set, so the config file
\* is read, and config.get fails on JSON that is not an object.
KeyRaises(src, environ) ==
    src.config # {} /\ src.vars \cap environ.keys = {} /\ environ.config = "list"

\* cls(): the instance number id, with the api_key that get_api_key found
Construct(cls, src, environ, id) ==
    [cls |-> cls, id |-> id,
     api_key |-> (src.vars \cap environ.keys # {} \/ environ.config \in src.config)]

\* What a call of get_ai_provider leaves in the log.
Returned_(instance, fresh) ==
    [fn |-> "get_ai_provider", fresh |-> fresh, raised |-> "", returned |-> instance, text |-> ""]

Raised_(fn, exc) ==
    [fn |-> fn, fresh |-> TRUE, raised |-> exc, returned |-> NoInstance, text |-> ""]

\* get_ai_provider with _ai_provider None: cls is the class selected.
Select(a, cls) ==
    IF cls = "AttributeError" \/ KeyRaises(KeySources(cls), a.environ)
    THEN [a EXCEPT !.log = Raised_("get_ai_provider", "AttributeError")]
    ELSE [a EXCEPT !._ai_provider = Construct(cls, KeySources(cls), a.environ, a.made + 1),
                   !.made = @ + 1,
                   !.log = Returned_(Construct(cls, KeySources(cls), a.environ, a.made + 1), TRUE)]

\* get_ai_provider written as if the provider were selected on every call.
get_ai_provider_Uncached(a) == Select(a, SelectClass(a.environ))

\* if _ai_provider is None: ...; return _ai_provider
get_ai_provider(a) ==
    IF a._ai_provider = NoInstance THEN Select(a, SelectClass(a.environ))
    ELSE [a EXCEPT !.log = Returned_(a._ai_provider, FALSE)]

\* The first instance returned since the module was loaded or reset.
NoteFirst(a) ==
    IF a.first = NoInstance /\ a.log.raised = "" THEN [a EXCEPT !.first = a.log.returned] ELSE a

\* The most provider instances made in one run.
MaxProviders == 2

GetProvider ==
    /\ pc = "lib" /\ call = NoCall
    /\ ai._ai_provider # NoInstance \/ ai.made < MaxProviders
    /\ ai' = NoteFirst(get_ai_provider(ai))
    /\ UNCHANGED <<variant, rules, proc, pc, fileIdx, ruleIdx, recordsRead, fileRecords,
                   considered, leftLog, splitLog, ruleLog, call>>

\* reset_provider(): _ai_provider = None
reset_provider(a) ==
    [a EXCEPT !._ai_provider = NoInstance, !.first = NoInstance,
              !.log = [NoAiLog EXCEPT !.fn = "reset_provider"]]

ResetProvider ==
    /\ pc = "lib" /\ call = NoCall
    /\ ai' = reset_provider(ai)
    /\ UNCHANGED <<variant, rules, proc, pc, fileIdx, ruleIdx, recordsRead, fileRecords,
                   considered, leftLog, splitLog, ruleLog, call>>

\* The program's environment changes: one variable is set or unset, or the
\* config file is rewritten.  The log is about the environment as it stands.
SetEnviron(environ) ==
    /\ pc = "lib" /\ call = NoCall
    /\ environ # ai.environ
    /\ ai' = [ai EXCEPT !.environ = environ, !.log = NoAiLog]
    /\ UNCHANGED <<variant, rules, proc, pc, fileIdx, ruleIdx, recordsRead, fileRecords,
                   considered, leftLog, splitLog, ruleLog, call>>

ChangeEnviron ==
    \/ \E name \in ProviderNames : SetEnviron([ai.environ EXCEPT !.PYAWK_AI_PROVIDER = name])
    \/ \E k \in KeyVars : SetEnviron([ai.environ EXCEPT !.keys = (@ \ {k}) \cup ({k} \ @)])
    \/ \E c \in Configs : SetEnviron([ai.environ EXCEPT !.config = c])

\* What the request of call_api meets: an HTTP error status, a connection
\* that fails, no answer within the timeout, a body that is not JSON, a JSON
\* object without the expected key, one whose list of answers is empty, JSON
\* that is not an object, or the expected object with its text.
Responses == {"http_error", "url_error", "timeout", "bad_json", "missing_key", "empty_list",
              "not_object", "text"}

\* The exception raised inside the try block of call_api ("" for none);
\* LocalAIProvider reads result['response'] and indexes no list.
ExceptionOf(response) ==
    CASE response = "http_error" -> "HTTPError"
      [] response = "url_error" -> "URLError"
      [] response = "timeout" -> "TimeoutError"
      [] response = "bad_json" -> "JSONDecodeError"
      [] response = "missing_key" -> "KeyError"
      [] response = "empty_list" -> "IndexError"
      [] response = "not_object" -> "TypeError"
      [] OTHER -> ""

\* except (urllib.error.HTTPError, urllib.error.URLError, KeyError,
\* json.JSONDecodeError): return None
Caught == {"HTTPError", "URLError", "KeyError", "JSONDecodeError"}

\* call_api of AnthropicProvider, OpenAIProvider, GeminiProvider and
\* LocalAIProvider, where the try block raises exc or returns the text
call_api(instance, exc) ==
    IF instance.cls # "LocalAIProvider" /\ ~instance.api_key
    THEN [NoAiLog EXCEPT !.fn = "call_api", !.text = "None"]
    ELSE IF exc = "" THEN [NoAiLog EXCEPT !.fn = "call_api", !.text = "text"]
    ELSE IF exc \in Caught THEN [NoAiLog EXCEPT !.fn = "call_api", !.text = "None"]
    ELSE Raised_("call_api", exc)

\* get_ai_provider().call_api(prompt) on the provider in use
CallApi(response) ==
    /\ pc = "lib" /\ call = NoCall
    /\ ai._ai_provider.cls \in {"AnthropicProvider", "OpenAIProvider", "GeminiProvider",
                                "LocalAIProvider"}
    /\ ~(ai._ai_provider.cls = "LocalAIProvider" /\ response = "empty_list")
    /\ ai' = [ai EXCEPT !.log = call_api(ai._ai_provider, ExceptionOf(response))]
    /\ UNCHANGED <<variant, rules, proc, pc, fileIdx, ruleIdx, recordsRead, fileRecords,
                   considered, leftLog, splitLog, ruleLog, call>>

InitProv ==
    /\ variant = "enhanced"
    /\ DriverIdle
    /\ call = NoCall

NextProv ==
    \/ GetProvider
    \/ ResetProvider
    \/ ChangeEnviron
    \/ \E response \in Responses : CallApi(response)

SpecProv == InitProv /\ [][NextProv]_vars

\* ------------------------------------------------------------------ claims
BeginIdx == {i \in 1..Len(rules) : rules[i].pat.kind = "BEGIN"}
EndIdx == {i \in 1..Len(rules) : rules[i].pat.kind = "END"}

\* The non-BEGIN/END rules of the program, in source order.
MainIdx == SelectSeq([i \in 1..Len(rules) |-> i],
                     LAMBDA i : rules[i].pat.kind \notin {"BEGIN", "END"})

\* Every source of the run could be opened so far.
AllOpened == \A i \in 1..Len(proc.err) : proc.err[i] # "open"

\* The plain runs: the processor was made with the default field separator
\* (no option -F) and every source could be opened.
Plain == FS = <<" ">> /\ AllOpened

\* C1: in a plain run, every BEGIN rule's action is executed exactly once in
\* the whole run (never twice; once when the run is done), and never after a
\* record has been read.
C1_BeginOnce ==
    Plain =>
        /\ \A i \in BeginIdx : proc.runs[i] <= 1 /\ (pc = "done" => proc.runs[i] = 1)
        /\ ~proc.lateBegin

\* C2: in a plain run, every END rule's action is executed exactly once in
\* the whole run (never twice; once when the run is done), and no record is
\* read after an END action has run.
C2_EndOnce ==
    Plain =>
        /\ \A i \in EndIdx : proc.runs[i] <= 1 /\ (pc = "done" => proc.runs[i] = 1)
        /\ ~proc.earlyEnd

\* C3: in a plain run, once an action has executed exit, no further record
\* is read and no further main rule runs, and the END rules have run exactly
\* once when the run is done.
C3_ExitStops ==
    Plain =>
        /\ ~proc.readAfterExit
        /\ ~proc.ranAfterExit
        /\ (proc.exited /\ pc = "done") => \A i \in EndIdx : proc.runs[i] = 1

\* C4: NR is the number of records read from all sources so far (every read
\* adds one, nothing else changes it, so it is the total when the run ends),
\* FNR is the number of records read from the source opened last (it starts
\* from 0 with each source), and 0 <= FNR <= NR.
C4_RecordCounters ==
    /\ NR = recordsRead
    /\ FNR = fileRecords
    /\ 0 <= FNR /\ FNR <= NR

\* C4 happens: a run of two sources has ended, the second source gave one of
\* the two records read, and an action has assigned NR.
C4_Witness ==
    /\ pc = "done" /\ fileIdx = MaxFiles
    /\ NR = MaxRecords /\ FNR = 1
    /\ proc.user_vars["NR"] # Undef

\* C5: for each record the non-BEGIN/END rules are considered once each, in
\* program order (the rules considered so far are the main rules before the
\* one considered next), and the line loop goes on to the next record, or
\* ends, only when all of them have been considered.
C5_RulesInOrder ==
    /\ pc = "rules" =>
         considered = SelectSeq(MainIdx, LAMBDA i : i < ruleIdx)
    /\ leftLog.valid => leftLog.considered = MainIdx

\* C5 happens: a second record is being processed by a program of two main
\* rules, the first record has been left, and both rules have been considered
\* for the second.
C5_Witness ==
    /\ pc = "rules" /\ recordsRead = MaxRecords /\ leftLog.valid
    /\ Len(MainIdx) = 2 /\ considered = MainIdx

Max(a, b) == IF a >= b THEN a ELSE b

\* C6: in a plain run, after set_field(k, v) with k >= 1, field k reads v, NF is the larger
\* of the previous NF and k, the fields created between the previous NF and
\* k are empty, and field 0 is fields 1..NF joined with the OFS most recently
\* assigned.
C6_SetFieldRebuilds ==
    LET L == proc.sfLog
    IN (Plain /\ L.valid /\ L.k >= 1) =>
         /\ L.fieldk = L.v
         /\ L.NF = Max(L.prevNF, L.k)
         /\ Len(L.flds) = L.NF
         /\ \A j \in (L.prevNF + 1)..(L.k - 1) : L.flds[j] = <<>>
         /\ L.field0 = Join(L.flds, L.ofs)

\* The fields the interpreter's own split gives a line under the separator fs.
OwnSplit(fs, line) ==
    IF variant = "fixed"
    THEN Tail(split_fields([proc EXCEPT !.FS = fs], line).fields)
    ELSE Tail(split_record([proc EXCEPT !.FS = fs], RStripNl(line)).fields)

\* C7: in a plain run, after set_field(0, v), fields 1..NF and NF are those
\* obtained by splitting v with the current FS.
C7_SetField0Resplits ==
    LET L == proc.sfLog
    IN (Plain /\ L.valid /\ L.k = 0) =>
         /\ L.flds = OwnSplit(FS, L.v)
         /\ L.NF = Len(L.flds)

\* C8: in a plain run, an assignment to FS leaves the fields and NF of the
\* record held unchanged, and every record is split with the FS most recently
\* assigned (the one the processor was made with, when there was none).
C8_FSAssignment ==
    Plain =>
        /\ (proc.asgLog.valid /\ proc.asgLog.name = "FS") =>
             /\ proc.asgLog.fieldsAfter = proc.asgLog.fieldsBefore
             /\ proc.asgLog.NFAfter = proc.asgLog.NFBefore
        /\ splitLog.valid =>
             /\ splitLog.flds = OwnSplit(splitLog.fs, splitLog.line)
             /\ splitLog.NF = Len(splitLog.flds)

\* C9: in a plain run, a print with arguments writes the string forms of
\* its arguments joined by the OFS most recently assigned and ended by the
\* ORS most recently assigned.
C9_PrintJoinsWithOFS ==
    LET L == proc.prLog
    IN (Plain /\ L.valid) => L.text = Join(L.args, L.ofs) \o L.ors

\* C10: in a plain run, a rule whose pattern is a regex literal runs its
\* action exactly when field 0, as it stands when the rule is considered,
\* matches the regex; an empty action prints field 0.
C10_RegexRule ==
    (Plain /\ ruleLog.valid) =>
        /\ ruleLog.ran <=> ReSearch(ruleLog.re, ruleLog.field0)
        /\ (ruleLog.ran /\ ruleLog.emptyAct) => ruleLog.text = ruleLog.field0 \o <<NL>>

\* ---- the parser, substr and ai_call (SpecLib)
Returned(fn) == call.fn = fn /\ call.done

Nested(action) == Find(action, "{", 1) # 0

Special(r) == r.pattern \in {<<"BEGIN">>, <<"END">>}

Main(r) == ~Special(r)

\* C11: a program of one rule whose action holds a nested pair of braces,
\* be the rule a BEGIN block, an END block or a main rule, parses to that one
\* rule with its whole action, up to the brace that matches the opening one.
C11_NestedBraces ==
    (Returned("parse_awk_program") /\ Len(call.args[2]) = 1 /\ Nested(call.args[2][1].action))
        => call.result = call.args[2]

\* C12: for a program whose actions hold no nested braces, the parser returns
\* one rule for each rule of the text, on one line or on several: the main
\* rules in source order, and every BEGIN and every END block as a rule of
\* its own.
C12_OneRulePerRule ==
    (Returned("parse_awk_program") /\ \A i \in 1..Len(call.args[2]) : ~Nested(call.args[2][i].action))
        => /\ Len(call.result) = Len(call.args[2])
           /\ SelectSeq(call.result, Main) = SelectSeq(call.args[2], Main)
           /\ SelectSeq(call.result, Special) = SelectSeq(call.args[2], Special)

\* C16: ai_call returns, and returns a non-empty string, when there is no
\* provider, when the provider raises, when it returns None and when it
\* returns the empty string.
C16_AiCallFallback ==
    (Returned("ai_call") /\ call.args[2].text = <<>>)
        => ~call.raised /\ call.result # <<>>

\* C20: substr(s, start, len) counts from 1: a start below 1 is taken as 1,
\* a start beyond the end gives "", an omitted len gives the rest of the
\* string from start, len <= 0 gives "", and a positive len gives at most len
\* characters from start.
SubstrLaw(s, start, length) ==
    IF start > Len(s) THEN <<>>
    ELSE IF ~length.given THEN SubSeq(s, start, Len(s))
    ELSE IF length.n <= 0 THEN <<>>
    ELSE SubSeq(s, start, IF start + length.n - 1 > Len(s) THEN Len(s) ELSE start + length.n - 1)

C20_Substr ==
    Returned("substr")
        => call.result = SubstrLaw(call.args[1], IF call.args[2] < 1 THEN 1 ELSE call.args[2], call.args[3])

\* ---- errors and the END phase (Spec)
\* C14: when process_file cannot open its source, the failure is reported on
\* the error stream, the run ends with a non-zero exit status (sys.exit(1)),
\* and the output written before is still there, unaltered.
C14_OpenFailure ==
    [][(fileIdx' = fileIdx + 1 /\ pc' # "loop")
         => /\ pc' = "exit1"
            /\ Len(proc'.err) > Len(proc.err)
            /\ proc'.err[Len(proc'.err)] = "open"
            /\ SubSeq(proc'.out, 1, Len(proc.out)) = proc.out]_vars

OpenedCount == fileIdx - Cardinality({ i \in 1..Len(proc.err) : proc.err[i] = "open" })

\* C13: once a pattern or an action has raised a runtime error, the run has
\* not ended for it (it stops early only for a source that cannot be opened),
\* every error raised has been reported on the error stream, every record
\* left behind was considered by all the main rules, and the END rules have
\* run for every source that has been read to its end.
C13_ErrorsDoNotEndRun ==
    proc.raised > 0 =>
        /\ pc = "exit1" => ~AllOpened
        /\ Cardinality({ i \in 1..Len(proc.err) : proc.err[i] \in {"action", "condition"} })
             = proc.raised
        /\ leftLog.valid => leftLog.considered = MainIdx
        /\ \A i \in EndIdx :
             proc.runs[i] = IF pc \in {"loop", "rules"} THEN OpenedCount - 1 ELSE OpenedCount

\* C13 happens: the run is done, the action of the main rule raised an error
\* for each of the records and the first END action raised one too, and the
\* second END action has run.
C13_Witness ==
    /\ pc = "done" /\ AllOpened /\ recordsRead = MaxRecords
    /\ proc.raised >= MaxRecords + 1
    /\ Cardinality(EndIdx) = 2 /\ \A i \in EndIdx : proc.runs[i] >= 1

\* The value text of the last -v option that holds '=' (all assign x).
ValueText(assignment) == SubSeq(assignment, 3, Len(assignment))

LastValue(assigns) ==
    ValueText(assigns[CHOOSE i \in 1..Len(assigns) :
                        Find(assigns[i], "=", 1) # 0
                        /\ \A j \in (i + 1)..Len(assigns) : Find(assigns[j], "=", 1) = 0])

\* int(value) if that parses, else float(value) if that parses, else value,
\* for the value texts of the model, and the text print writes for it.
Typed(text) ==
    CASE text = <<"5">> -> [val |-> Num(5), str |-> <<"5">>]
      [] text = <<"0", "5">> -> [val |-> Num(5), str |-> <<"5">>]
      [] text = <<"1", "0">> -> [val |-> Num(10), str |-> <<"1", "0">>]
      [] text = <<"1", ".", "5">> -> [val |-> Flt(150), str |-> <<"1", ".", "5">>]
      [] OTHER -> [val |-> Str(text), str |-> text]

\* C15: in a run with -v options, x holds the typed value of the last option
\* from before the first BEGIN action on, and every print of x, in a BEGIN
\* action, a main rule or an END action, writes that value.
C15_Preassignment ==
    proc.assign # <<>> =>
        /\ proc.user_vars["x"] = Typed(LastValue(proc.assign)).val
        /\ (proc.prLog.valid /\ rules[1].pat.kind = "BEGIN")
             => proc.prLog.args = <<Typed(LastValue(proc.assign)).str>>

\* C15 happens: x was assigned twice, the second time a float, and the BEGIN
\* action has printed it before any record was read.
C15_Witness ==
    /\ Len(proc.assign) = 2 /\ proc.assign[1] # proc.assign[2]
    /\ proc.user_vars["x"] = Flt(150)
    /\ recordsRead = 0 /\ proc.prLog.valid /\ proc.prLog.args = <<<<"1", ".", "5">>>>

\* The text of a value as the program wrote or read it.
OperandText(e) ==
    CASE e.e = "field" -> get_field(variant, proc, e.k)
      [] e.e = "num" -> StrOfNat(e.k)
      [] e.e = "var" -> PyStr(proc.user_vars[e.name])
      [] e.e = "lit" -> e.s

IsNumeric(s) == IsInt(s) \/ IsFloat(s)

NumericValue(s) == IF IsInt(s) THEN 100 * IntOf(s) ELSE FloatOf(s)

\* a > b by the dual comparison law
GtLaw(a, b) ==
    IF IsNumeric(a) /\ IsNumeric(b) THEN NumericValue(a) > NumericValue(b) ELSE StrGt(a, b)

\* C17: a rule whose pattern is the comparison l > r runs its action (which
\* prints the record) exactly when l > r holds numerically, if both values
\* parse as numbers, and lexicographically otherwise.
C17_DualComparison ==
    [][(pc = "rules" /\ ruleIdx <= Len(rules) /\ rules[ruleIdx].pat.kind = "gt")
         => ((Len(proc'.out) > Len(proc.out))
               <=> GtLaw(OperandText(rules[ruleIdx].pat.l), OperandText(rules[ruleIdx].pat.r)))]_vars

\* ---- sub, gsub, sprintf and srand (SpecLib)
\* C21: gsub(re, repl, s) leaves in the variable s its former value with
\* every match of re replaced by repl and returns the number of
\* substitutions made; sub does the same for the first match only.
C21_GsubStoresAndCounts ==
    (call.fn \in {"sub", "gsub"} /\ call.done)
        => /\ call.result.target
                = SubnFrom(call.args[1], call.args[2], call.args[3], call.fn = "sub", 0).text
           /\ call.result.value
                = Num(SubnFrom(call.args[1], call.args[2], call.args[3], call.fn = "sub", 0).count)

RECURSIVE SprintfLaw(_, _, _, _)
\* The format with its conversions k, k - 1, ..., 1 replaced by the
\* arguments of the same index: replacing the later conversion first leaves
\* the earlier ones where they were.
SprintfLaw(fmt, conversions, args, k) ==
    IF k = 0 THEN fmt
    ELSE SprintfLaw(Replaced(fmt, conversions[k], args[k]), conversions, args, k - 1)

\* C22: when sprintf(fmt, a1, ..., an) returns, its result is fmt with the
\* i-th conversion replaced by the formatted i-th argument, for every i up to
\* the number of arguments, whatever their lengths; the other text of fmt
\* and the conversions without an argument are kept as they are.
C22_SprintfPositional ==
    (Returned("sprintf") /\ ~call.result.raised)
        => call.result.text
             = SprintfLaw(call.args[1], ScanFrom(call.args[1], 0), call.args[2],
                          IF Len(ScanFrom(call.args[1], 0)) < Len(call.args[2])
                          THEN Len(ScanFrom(call.args[1], 0)) ELSE Len(call.args[2]))

\* C23: in a run of srand calls, every call after the first returns the seed
\* that the call before it set.
C23_SrandReturnsPrevious ==
    call.fn = "srand"
        => \A i \in 2..Len(call.result) : call.result[i].returned = Num(call.result[i - 1].sown)

\* ---- the AI providers (SpecProv)
\* The provider class that a value of PYAWK_AI_PROVIDER names.
Named(name) ==
    CASE name = "anthropic" -> "AnthropicProvider"
      [] name = "openai" -> "OpenAIProvider"
      [] name = "gemini" -> "GeminiProvider"
      [] name = "local" -> "LocalAIProvider"

\* C24: a call of get_ai_provider that found no provider in use and returned
\* one, with PYAWK_AI_PROVIDER set to anthropic, openai, gemini or local,
\* returned the provider of that name, whichever key variables are set.
C24_NamedProviderWins ==
    (/\ ai.log.fn = "get_ai_provider" /\ ai.log.fresh /\ ai.log.raised = ""
     /\ ai.environ.PYAWK_AI_PROVIDER \in {"anthropic", "openai", "gemini", "local"})
        => ai.log.returned.cls = Named(ai.environ.PYAWK_AI_PROVIDER)

\* C25: call_api of the Anthropic, OpenAI, Gemini and local provider returns
\* the text or None and never raises, whatever the request meets.
C25_CallApiNeverRaises ==
    ai.log.fn = "call_api" => ai.log.raised = "" /\ ai.log.text \in {"None", "text"}

\* C26: a call of get_ai_provider that returns never returns None; it
\* returns the instance that the first call since the last reset_provider
\* returned, whatever the environment has become; and when it is itself the
\* first such call, it makes a new instance of the class that the selection
\* gives for the environment as it stands.
C26_ProviderCached ==
    [][(ai'.log.fn = "get_ai_provider" /\ ai'.log.raised = "")
         => /\ ai'.log.returned # NoInstance
            /\ ai.first # NoInstance => ai'.log.returned = ai.first
            /\ (ai.first = NoInstance /\ ai' # ai)
                 => /\ ai'.log.returned.id = ai.made + 1
                    /\ ai'.log.returned.cls = SelectClass(ai.environ)]_vars

\* C26 happens: a provider was selected, reset_provider was called and a
\* second provider selected, the environment changed so that the selection
\* would give another class, and get_ai_provider returned the second
\* provider again.
C26_Witness ==
    /\ ai.log.fn = "get_ai_provider" /\ ai.log.raised = ""
    /\ ai.made = 2 /\ ai.log.returned.id = 2 /\ ai.log.returned = ai.first
    /\ ai.log.returned.cls # SelectClass(ai.environ)

\* ---- statements, NF, NR and user variables
\* The number of print statements of an action (an empty action prints once)
\* and the number of lines in a text.
Prints(action) ==
    IF action = <<>> THEN 1
    ELSE Cardinality({ i \in 1..Len(action) : action[i].op \in {"print", "print0"} })

LinesIn(text) == Cardinality({ i \in 1..Len(text) : text[i] = NL })

\* C27: when a main rule is considered for a record, its action writes at
\* most one line for each of its print statements: no statement is executed
\* twice, also when a later statement reads a variable never assigned.
C27_StatementsOnce ==
    [][(pc = "rules" /\ ruleIdx <= Len(rules) /\ IsMainRule(rules[ruleIdx]))
         => LinesIn(proc'.out) - LinesIn(proc.out) <= Prints(rules[ruleIdx].act)]_vars

\* C28: in every state of a run, NF is the number of fields held for the
\* record (0 before the first record), also after an action has assigned NF
\* and for the records read after that.
C28_NFIsFieldCount ==
    proc.NF = IF proc.fields = <<>> THEN 0 ELSE Len(proc.fields) - 1

\* C29: the value of NR that the patterns and actions of a record read is one
\* more than the value those of the record before it read, for every record
\* of a file after its first, also after an action has assigned NR.
C29_NRStepsByOne ==
    [][(fileRecords >= 1 /\ fileRecords' = fileRecords + 1)
         => View(variant, proc').NR = Num(View(variant, proc).NR.n + 1)]_vars

\* What an action that starts on the processor p reads for a name.
ReadBy(v, p, name) ==
    IF v = "fixed" THEN Lookup_F(p, [n \in BuiltinNames |-> BuiltinValue(p, n)], name)
    ELSE build_context(p)[name]

\* C30: a user variable (any name that is not a built-in one) that an action
\* assigned is read with the assigned value by every later rule of the
\* record, for every later record and by the END rules, until it is assigned
\* again.
C30_UserVariableKept ==
    (proc.asgLog.valid /\ proc.asgLog.name \notin BuiltinNames)
        => ReadBy(variant, proc, proc.asgLog.name) = proc.asgLog.val

====
